---- MODULE Spec2Model ----
(***************************************************************************)
(* Asynchronous ingestion-and-retrieval pipeline of python-agents:         *)
(* the worker runtime (single-shot and polling), the task queue, the       *)
(* ingestion pipeline and the vector store search.                         *)
(*                                                                         *)
(* Text (task data, queue messages, error messages) is a sequence of       *)
(* string tokens; the token "|" is the pipe character.                     *)
(***************************************************************************)
EXTENDS Integers, Sequences, FiniteSets, TLC

\* Python's None, also the value of dict.get for an absent key.
None == "None"

(***************************************************************************)
(* JSON documents and their text.                                          *)
(***************************************************************************)

\* Values a task document gives to "task_type": two registered types, an
\* unregistered one, the empty string, and a JSON array (unhashable once
\* loaded as a Python list).
TaskTypeValues == {"ingest", "summarize", "bogus", "", "[list]"}

\* Values of "webhook_url": a well-formed URL, a URL with a port that is no
\* number (httpx raises InvalidURL, which is not an httpx.HTTPError), and
\* the empty string.
WebhookValues == {"https://sink/hook", "http://sink:x/hook", ""}

\* Values of "payload" as text pieces: a plain object, and one whose text
\* holds the pipe character.
PayloadValues == {<<"{filename:a.txt}">>, <<"{filename:a", "|", "b.txt}">>}

\* Values of "task_id" inside the JSON document.
JsonTaskIds == {"json456"}

\* JSON objects: every key is present with a value, or absent (None).
JsonObjects ==
    [kind : {"object"},
     task_type : TaskTypeValues \cup {None},
     payload : PayloadValues \cup {<<None>>},
     webhook_url : WebhookValues \cup {None},
     task_id : JsonTaskIds \cup {None}]

\* Valid JSON documents that are not objects: null and an array.
JsonScalars == {[kind |-> "null"], [kind |-> "array"]}

JsonValues == JsonObjects \cup JsonScalars

\* json.dumps: the text of a document.
Dumps(v) ==
    IF v.kind # "object" THEN <<v.kind>>
    ELSE <<"{">>
         \o (IF v.task_type = None THEN <<>> ELSE <<"task_type:", v.task_type>>)
         \o (IF v.payload = <<None>> THEN <<>> ELSE <<"payload:">> \o v.payload)
         \o (IF v.webhook_url = None THEN <<>> ELSE <<"webhook_url:", v.webhook_url>>)
         \o (IF v.task_id = None THEN <<>> ELSE <<"task_id:", v.task_id>>)
         \o <<"}">>

JSONDecodeError == [kind |-> "JSONDecodeError"]

\* json.loads: the document a text denotes, JSONDecodeError for any text
\* that is not the text of a document.
Loads(text) ==
    IF \E v \in JsonValues : Dumps(v) = text
    THEN CHOOSE v \in JsonValues : Dumps(v) = text
    ELSE JSONDecodeError

\* `"|" in s`
HasPipe(s) == \E i \in 1..Len(s) : s[i] = "|"

FirstPipe(s) == CHOOSE i \in 1..Len(s) : s[i] = "|" /\ \A j \in 1..(i - 1) : s[j] # "|"

\* s.split("|", 1): the text before the first pipe and the text after it.
SplitPipe(s) ==
    LET i == FirstPipe(s) IN <<SubSeq(s, 1, i - 1), SubSeq(s, i + 1, Len(s))>>

\* Python truthiness of a string-or-None value.
Truthy(x) == x # None /\ x # ""

\* A python list is unhashable: dict.get(list) raises TypeError.
Hashable(x) == x # "[list]"

(***************************************************************************)
(* parse_task_data (apps/worker/queue_worker.py).                          *)
(***************************************************************************)

\* The outcome of parse_task_data: exc is None and the four fields are the
\* returned tuple, or exc names the exception raised.
Parsed(task_id, task_type, payload, webhook_url) ==
    [exc |-> None, task_id |-> task_id, task_type |-> task_type,
     payload |-> payload, webhook_url |-> webhook_url]

ParseRaises(e) ==
    [exc |-> e, task_id |-> <<>>, task_type |-> None,
     payload |-> <<None>>, webhook_url |-> None]

parse_task_data(task_data_raw) ==
    LET split == HasPipe(task_data_raw)
        prefix == IF split THEN SplitPipe(task_data_raw)[1] ELSE <<"unknown">>
        json_content == IF split THEN SplitPipe(task_data_raw)[2] ELSE task_data_raw
        task_data == Loads(json_content)
    IN  IF task_data = JSONDecodeError THEN ParseRaises("ValueError")
        ELSE IF task_data.kind # "object" THEN ParseRaises("AttributeError")
        ELSE IF ~Truthy(task_data.task_type) THEN ParseRaises("ValueError")
        ELSE Parsed(IF task_data.task_id # None THEN <<task_data.task_id>> ELSE prefix,
                    task_data.task_type,
                    IF task_data.payload = <<None>> THEN <<"{}">> ELSE task_data.payload,
                    task_data.webhook_url)

(***************************************************************************)
(* State.                                                                  *)
(***************************************************************************)

VARIABLES
    \* SingleTaskRunner.run (apps/worker/queue_worker.py)
    st_pc,           \* position in run
    task_data_raw,   \* the argument of run
    st_task,         \* the tuple parse_task_data returned
    st_fate,         \* what the dispatched handler.execute call will do
    st_result,       \* the result of execute_with_timeout
    exit_code,       \* <<>> until run returns, then <<code>>
    st_raised,       \* the exception that escaped run, None if none
    st_executed,     \* the task types whose handler.execute was called
    st_webhooks,     \* the POSTs made by send_webhook
    \* AsyncWorker (apps/worker/queue_worker.py) and its Azure queue
    queue,           \* message -> "visible" | "invisible" | "deleted"
    msg_content,     \* message -> its text
    w_pc,            \* position in AsyncWorker.run
    running,         \* self.running
    w_messages,      \* the batch receive_messages returned
    w_i,             \* index in the batch of the message being handled
    w_fate,          \* what the running handler.execute call will do
    w_returned,      \* messages whose process_message returned since received
    w_killed_in,     \* the message being handled when the worker was killed
    w_shutdown_in,   \* the message being handled when shutdown was signalled
    w_webhooks,      \* the last POST process_message made
    w_log,           \* the last error logged by process_message or run
    \* AzureQueueService.submit_task (apps/worker/services/queue_service.py)
    q_pc,            \* position in the retry wrapper around submit_task
    q_task,          \* the task submitted and whether the queue is configured
    q_attempt,       \* attempt of retry_with_backoff, from 0
    q_sent,          \* the send_message calls made: size of the text, delivered
    q_slept,         \* the delays slept between attempts
    q_error,         \* the exception submit_task raised to its caller
    \* Ingestion: ingest_docs_task (backend/async_tasks.py) and
    \* IngestionService.process_file (backend/services/ingestion.py)
    store,           \* <<filename, document_set>> -> number of chunks indexed
    ing_impl,        \* which of the two implementations the workers run
    ing_files,       \* task -> the list of file items it was given
    ing_pc,          \* task -> position in the loop over its files
    ing_fi,          \* task -> index of the file being processed
    ing_had,         \* task -> chunks of the file's pair when its turn began
    ing_count_failed, \* task -> the count query of its current file raised
    ing_call_runs,   \* whether a call of the store's upsert runs the upsert
    ing_prior,       \* task -> an earlier ingest of the file's pair had ended
                     \*         "Indexed" when its turn began
    ing_chunks,      \* task -> number of chunks of the file being processed
    ing_results,     \* task -> the outcomes appended so far
    ing_embed,       \* task -> the embedding calls of its last file
    \* Search: VectorDBService.search (backend/services/vector_db.py) and
    \* search_documents (backend/sync_agent.py)
    sr_pc,           \* "call" before the search, "returned" after it
    sr_impl,         \* which of the two searches is called
    sr_rows,         \* the chunks of the index, nearest to the query first
    sr_limit,        \* the limit argument
    sr_document_set, \* the document_set argument
    sr_available,    \* whether the backend answers
    sr_results,      \* the list the search returned
    db_pc,           \* VectorDBService: "ready" for a call, "idle" at rest
    db_table,        \* (filename, document_set) -> rows of the table
    db_before,       \* the table before the last call
    db_schema_verified, \* self._schema_verified
    db_backend,      \* the backend during the last call
    db_call,         \* the last call: operation and arguments
    db_ret,          \* how the last call ended: "returned" or "raised"
    db_result,       \* the number of rows the last read call returned
    db_ncalls,       \* calls made so far
    \* The file watcher (backend/file_watcher.py), the tree it monitors, the
    \* index and the tasks it submits
    fw_pc,           \* position in check_unindexed_files_loop
    fw_fs,           \* path -> the entry of the monitored tree at that path
    fw_index,        \* the paths that have points in the vector store
    fw_pending,      \* the paths submitted whose ingestion task has not run
    fw_pass,         \* reconciliation passes begun
    fw_index_at,     \* the index when the last pass fetched its registry
    fw_registry,     \* indexed_files of the pass
    fw_walk,         \* the files os.walk has still to yield in the pass
    fw_files_to_index, \* files_to_index of the pass
    fw_submitted,    \* the paths the pass has submitted
    fw_last,         \* how the last pass ended: "done" or "error"
    fw_by_pass,      \* the paths any pass has submitted
    fw_missed,        \* the paths whose creation event or submission was lost
    \* A legacy .xls input: ingest_docs_task (backend/async_tasks.py),
    \* process_file (backend/services/ingestion.py), summarize_document
    \* (backend/summarizer.py)
    xl_pc,           \* position in the operation
    xl_impl,         \* which of the three operations runs
    xl_source,       \* the input given: "content" or "filepath"
    xl_removable,    \* whether os.remove of the temporary file succeeds
    xl_temp,         \* the temporary .xlsx file exists on disk
    xl_ref,          \* the cleanup variable holds the path of the file
    xl_outcome,       \* what the operation returned for the file
    \* IngestionHandler.execute under SingleTaskRunner.run
    \* (apps/worker/queue_worker.py)
    ih_pc,           \* position: in execute, then in run
    ih_payload,      \* the payload of the task: filename and document_set
    ih_webhook_url,  \* the webhook_url of the task
    ih_blob,         \* what download_file gives: None, b"" or bytes
    ih_pipeline,     \* what process_file did and returned
    ih_result,       \* the result execute returned
    ih_posted,       \* the webhook POST of run: status carried, delivered
    ih_exit          \* <<>> until run returns, then <<exit code>>

vars_single ==
    <<st_pc, task_data_raw, st_task, st_fate, st_result, exit_code, st_raised,
      st_executed, st_webhooks>>

vars_poll ==
    <<queue, msg_content, w_pc, running, w_messages, w_i, w_fate, w_returned,
      w_killed_in, w_shutdown_in, w_webhooks, w_log>>

vars_queue == <<q_pc, q_task, q_attempt, q_sent, q_slept, q_error>>

vars_ingest ==
    <<store, ing_impl, ing_call_runs, ing_files, ing_pc, ing_fi, ing_had,
      ing_count_failed, ing_prior, ing_chunks, ing_results, ing_embed>>

vars_search ==
    <<sr_pc, sr_impl, sr_rows, sr_limit, sr_document_set, sr_available, sr_results>>

vars_store ==
    <<db_pc, db_table, db_before, db_schema_verified, db_backend, db_call, db_ret,
      db_result, db_ncalls>>

vars_watch ==
    <<fw_pc, fw_fs, fw_index, fw_pending, fw_pass, fw_index_at, fw_registry,
      fw_walk, fw_files_to_index, fw_submitted, fw_last, fw_by_pass, fw_missed>>

vars_xls ==
    <<xl_pc, xl_impl, xl_source, xl_removable, xl_temp, xl_ref, xl_outcome>>

vars_handler ==
    <<ih_pc, ih_payload, ih_webhook_url, ih_blob, ih_pipeline, ih_result, ih_posted, ih_exit>>

vars == <<vars_single, vars_poll, vars_queue, vars_ingest, vars_search,
      vars_store, vars_watch, vars_xls, vars_handler>>

\* The variables of the other components, which a step of one leaves alone.
rest_single == <<vars_poll, vars_queue, vars_ingest, vars_search, vars_store,
      vars_watch, vars_xls, vars_handler>>

rest_poll == <<vars_single, vars_queue, vars_ingest, vars_search, vars_store,
      vars_watch, vars_xls, vars_handler>>

rest_queue == <<vars_single, vars_poll, vars_ingest, vars_search, vars_store,
      vars_watch, vars_xls, vars_handler>>

rest_ingest == <<vars_single, vars_poll, vars_queue, vars_search, vars_store,
      vars_watch, vars_xls, vars_handler>>

rest_search == <<vars_single, vars_poll, vars_queue, vars_ingest, vars_store,
      vars_watch, vars_xls, vars_handler>>

rest_store == <<vars_single, vars_poll, vars_queue, vars_ingest, vars_search,
      vars_watch, vars_xls, vars_handler>>

rest_watch == <<vars_single, vars_poll, vars_queue, vars_ingest, vars_search,
      vars_store, vars_xls, vars_handler>>

rest_xls == <<vars_single, vars_poll, vars_queue, vars_ingest, vars_search,
      vars_store, vars_watch, vars_handler>>

rest_handler == <<vars_single, vars_poll, vars_queue, vars_ingest,
      vars_search, vars_store, vars_watch, vars_xls>>

(***************************************************************************)
(* Single-shot mode: SingleTaskRunner.                                     *)
(***************************************************************************)

\* get_handlers(): the handler registry.
Handlers == {"ingest", "summarize"}

\* What a call of handler.execute(payload) does.  IngestionHandler and
\* SummarizationHandler return completed, return failed (their own except),
\* raise (payload.get outside their try), stay suspended at an await for
\* ever (download_file), or never return from a synchronous call that
\* blocks the event loop (summarize_document is a plain def).
HandlerFates == {"completed", "failed", "raises", "hang_await", "hang_sync"}

\* Responses to the webhook POST: success, an error status, no connection,
\* a timeout.  All but the first are httpx.HTTPError.
PostOutcomes == {"200", "500", "ConnectError", "TimeoutException"}

NoResult == [status |-> None, error |-> <<>>]
Completed == [status |-> "completed", error |-> <<>>]
Failed(msg) == [status |-> "failed", error |-> msg]

UnknownTaskTypeMsg(task_type) == <<"Unknown task type: ", task_type>>
TimeoutMsg == <<"Task exceeded ", "timeout", " of N seconds">>
HandlerErrorMsg == <<"str(e)">>

\* Task data handed to run: with or without the "<task_id>|" prefix, the
\* text of a JSON document, or text that is no JSON.
RawPrefixes == {<<>>, <<"abc123", "|">>}
RawBodies ==
    {Dumps(v) : v \in JsonValues}
        \cup {<<"not valid json">>, <<"{", "task_type:", "ingest">>}
RawInputs == {pre \o body : pre \in RawPrefixes, body \in RawBodies}

NoTask == ParseRaises(None)

InitSingle ==
    /\ st_pc = "start"
    /\ task_data_raw \in RawInputs
    /\ st_task = NoTask
    /\ st_fate = None
    /\ st_result = NoResult
    /\ exit_code = <<>>
    /\ st_raised = None
    /\ st_executed = <<>>
    /\ st_webhooks = <<>>

\* run, lines 201-205: parse; a ValueError is caught and run returns 1, any
\* other exception escapes run.
RunParse ==
    /\ st_pc = "start"
    /\ LET p == parse_task_data(task_data_raw) IN
         IF p.exc = None
         THEN /\ st_task' = p
              /\ st_pc' = "dispatch"
              /\ UNCHANGED <<exit_code, st_raised>>
         ELSE IF p.exc = "ValueError"
         THEN /\ exit_code' = <<1>>
              /\ st_pc' = "returned"
              /\ UNCHANGED <<st_task, st_raised>>
         ELSE /\ st_raised' = p.exc
              /\ st_pc' = "raised"
              /\ UNCHANGED <<st_task, exit_code>>
    /\ UNCHANGED <<task_data_raw, st_fate, st_result, st_executed, st_webhooks>>
    /\ UNCHANGED rest_single

\* execute_with_timeout, lines 168-174: look the handler up (outside the
\* try), return the unknown-type failure, or start handler.execute under
\* asyncio.wait_for.
ExecuteWithTimeout ==
    /\ st_pc = "dispatch"
    /\ IF ~Hashable(st_task.task_type)
       THEN /\ st_raised' = "TypeError"
            /\ st_pc' = "raised"
            /\ UNCHANGED <<st_fate, st_result, st_executed>>
       ELSE IF st_task.task_type \notin Handlers
       THEN /\ st_result' = Failed(UnknownTaskTypeMsg(st_task.task_type))
            /\ st_pc' = "notify"
            /\ UNCHANGED <<st_fate, st_raised, st_executed>>
       ELSE /\ \E f \in HandlerFates : st_fate' = f
            /\ st_executed' = Append(st_executed, st_task.task_type)
            /\ st_pc' = "executing"
            /\ UNCHANGED <<st_result, st_raised>>
    /\ UNCHANGED <<task_data_raw, st_task, exit_code, st_webhooks>>
    /\ UNCHANGED rest_single

\* lines 173-177: the handler returned its result dict.
HandlerReturns ==
    /\ st_pc = "executing"
    /\ st_fate \in {"completed", "failed"}
    /\ st_result' = IF st_fate = "completed" THEN Completed ELSE Failed(HandlerErrorMsg)
    /\ st_pc' = "notify"
    /\ UNCHANGED <<task_data_raw, st_task, st_fate, exit_code, st_raised,
                   st_executed, st_webhooks>>
    /\ UNCHANGED rest_single

\* lines 182-184: the handler raised.
HandlerRaises ==
    /\ st_pc = "executing"
    /\ st_fate = "raises"
    /\ st_result' = Failed(HandlerErrorMsg)
    /\ st_pc' = "notify"
    /\ UNCHANGED <<task_data_raw, st_task, st_fate, exit_code, st_raised,
                   st_executed, st_webhooks>>
    /\ UNCHANGED rest_single

\* The event loop can run the timer callback of asyncio.wait_for only while
\* the handler is suspended at an await: not while a synchronous call of
\* the handler holds the loop.
TimerCanFire(fate) == fate # "hang_sync"

\* lines 178-181: the timeout elapsed, the handler is cancelled.
WaitForTimeout ==
    /\ st_pc = "executing"
    /\ TimerCanFire(st_fate)
    /\ st_result' = Failed(TimeoutMsg)
    /\ st_pc' = "notify"
    /\ UNCHANGED <<task_data_raw, st_task, st_fate, exit_code, st_raised,
                   st_executed, st_webhooks>>
    /\ UNCHANGED rest_single

\* NotificationService.send_webhook, lines 29-39: TRUE, FALSE (an
\* httpx.HTTPError was caught), or the name of the exception that escapes.
\* A URL with a malformed port raises httpx.InvalidURL, no HTTPError.
send_webhook(webhook_url, outcome) ==
    IF webhook_url = "http://sink:x/hook" THEN "InvalidURL"
    ELSE IF outcome = "200" THEN "True"
    ELSE "False"

notification_data(task, result) ==
    [task_id |-> task.task_id, task_type |-> task.task_type,
     status |-> result.status, error |-> result.error]

\* The exit code run derives from the result, lines 228-235.
ExitCode(result) == IF result.status = "completed" THEN 0 ELSE 1

\* run, lines 213-235: post the webhook when a URL was given, then return
\* the exit code; an exception of send_webhook escapes run.
RunNotifyAndExit ==
    /\ st_pc = "notify"
    /\ \E outcome \in PostOutcomes :
         LET url == st_task.webhook_url
             sent == send_webhook(url, outcome)
         IN  IF Truthy(url) /\ sent \notin {"True", "False"}
             THEN /\ st_raised' = sent
                  /\ st_pc' = "raised"
                  /\ UNCHANGED <<exit_code, st_webhooks>>
             ELSE /\ st_webhooks' =
                        IF Truthy(url)
                        THEN Append(st_webhooks,
                                    [url |-> url, outcome |-> outcome,
                                     data |-> notification_data(st_task, st_result)])
                        ELSE st_webhooks
                  /\ exit_code' = <<ExitCode(st_result)>>
                  /\ st_pc' = "returned"
                  /\ UNCHANGED st_raised
    /\ UNCHANGED <<task_data_raw, st_task, st_fate, st_result, st_executed>>
    /\ UNCHANGED rest_single

NextSingle ==
    \/ RunParse
    \/ ExecuteWithTimeout
    \/ HandlerReturns
    \/ HandlerRaises
    \/ WaitForTimeout
    \/ RunNotifyAndExit

(***************************************************************************)
(* Continuous-polling mode: AsyncWorker and the Azure queue it polls.      *)
(***************************************************************************)

\* Number of messages in the queue.
NMsgs == 2

Msgs == 1..NMsgs

Obj(task_type, payload, webhook_url, task_id) ==
    [kind |-> "object", task_type |-> task_type, payload |-> payload,
     webhook_url |-> webhook_url, task_id |-> task_id]

\* Texts of queue messages: a well-formed ingest task with a webhook, text
\* that is no JSON, an unregistered task type with a URL httpx rejects, a
\* JSON document that is no object, and a document without task_type.
PollContents ==
    { <<"abc123", "|">> \o Dumps(Obj("ingest", <<"{filename:a.txt}">>, "https://sink/hook", None)),
      <<"abc123", "|", "not valid json">>,
      <<"abc123", "|">> \o Dumps(Obj("bogus", <<"{filename:a.txt}">>, "http://sink:x/hook", None)),
      <<"abc123", "|">> \o Dumps([kind |-> "null"]),
      <<"abc123", "|">> \o Dumps(Obj(None, <<None>>, "https://sink/hook", None)) }

\* Sequences without repetition over a set of messages: the batches a
\* receive can return (the queue guarantees no order).
RECURSIVE Batches(_)
Batches(S) ==
    IF S = {} THEN {<<>>}
    ELSE {<<>>} \cup UNION {{<<m>> \o b : b \in Batches(S \ {m})} : m \in S}

NoPost == [message |-> 0, url |-> None, sent |-> None, task_id |-> <<>>, status |-> None]

NoLog == [message |-> 0, error |-> None]

InitPoll ==
    /\ queue = [m \in Msgs |-> "visible"]
    /\ msg_content \in [Msgs -> PollContents]
    /\ w_pc = "loop"
    /\ running = TRUE
    /\ w_messages = <<>>
    /\ w_i = 0
    /\ w_fate = None
    /\ w_returned = {}
    /\ w_killed_in = 0
    /\ w_shutdown_in = 0
    /\ w_webhooks = NoPost
    /\ w_log = NoLog

\* run, line 343 and 365-367: the while test; the loop ends once
\* self.running is false.
RunLoopExit ==
    /\ w_pc = "loop"
    /\ ~running
    /\ w_pc' = "stopped"
    /\ UNCHANGED <<queue, msg_content, running, w_messages, w_i, w_fate,
                   w_returned, w_killed_in, w_shutdown_in, w_webhooks, w_log>>
    /\ UNCHANGED rest_poll

\* A loop body that acknowledges the message before handling it.
DeleteFirst == "delete"

\* run, lines 353-355: for each message of the batch, process_message comes
\* first and delete_message second.
FirstMessageStep == "process"

\* run, lines 345-357: receive_messages returns a batch of visible messages
\* and hides them for the visibility timeout; an empty batch sends the loop
\* to sleep.
RunReceive ==
    /\ w_pc = "loop"
    /\ running
    /\ \E batch \in Batches({m \in Msgs : queue[m] = "visible"}) :
         /\ w_messages' = batch
         /\ queue' = [m \in Msgs |->
                        IF \E k \in 1..Len(batch) : batch[k] = m
                        THEN "invisible" ELSE queue[m]]
         /\ w_returned' = w_returned \ {batch[k] : k \in 1..Len(batch)}
         /\ IF batch = <<>>
            THEN w_pc' = "sleep" /\ w_i' = 0
            ELSE w_pc' = FirstMessageStep /\ w_i' = 1
    /\ UNCHANGED <<msg_content, running, w_fate, w_killed_in, w_shutdown_in, w_webhooks, w_log>>
    /\ UNCHANGED rest_poll

\* run, lines 345-348 and 359-361: receive_messages raised after its
\* retries; the error is logged and the loop sleeps.
RunReceiveFails ==
    /\ w_pc = "loop"
    /\ running
    /\ w_log' = [message |-> 0, error |-> "Error in worker loop"]
    /\ w_pc' = "sleep"
    /\ UNCHANGED <<queue, msg_content, running, w_messages, w_i, w_fate,
                   w_returned, w_killed_in, w_shutdown_in, w_webhooks>>
    /\ UNCHANGED rest_poll

\* run, lines 357 and 361: asyncio.sleep(polling_interval) is over.
RunWake ==
    /\ w_pc = "sleep"
    /\ w_pc' = "loop"
    /\ UNCHANGED <<queue, msg_content, running, w_messages, w_i, w_fate,
                   w_returned, w_killed_in, w_shutdown_in, w_webhooks, w_log>>
    /\ UNCHANGED rest_poll

\* What process_message makes of a message text before any handler runs,
\* lines 284-305: "execute" with the parsed task, or the way it returns.
Decoded(how, task_id, task_type, webhook_url) ==
    [how |-> how, task_id |-> task_id, task_type |-> task_type,
     webhook_url |-> webhook_url]

decode_message(message_content) ==
    LET split == HasPipe(message_content)
        task_id == IF split THEN SplitPipe(message_content)[1] ELSE <<"unknown">>
        json_content == IF split THEN SplitPipe(message_content)[2] ELSE message_content
        task_data == Loads(json_content)
    IN  IF task_data = JSONDecodeError
        THEN Decoded("Invalid JSON in message", task_id, None, None)
        ELSE IF task_data.kind # "object"
        THEN Decoded("Error processing message", task_id, None, None)
        ELSE IF task_data.task_type # None /\ ~Hashable(task_data.task_type)
        THEN Decoded("Error processing message", task_id, task_data.task_type, None)
        ELSE IF task_data.task_type \notin Handlers
        THEN Decoded("unknown", task_id, task_data.task_type, task_data.webhook_url)
        ELSE Decoded("execute", task_id, task_data.task_type, task_data.webhook_url)

CurrentMessage == w_messages[w_i]

\* A process_message whose exceptions escape to the except of the loop,
\* which logs, drops the rest of the batch and sleeps.
ProcessMessageEndsEscaping(raised) == IF raised THEN "sleep" ELSE "delete"

\* The position of run when process_message ends, lines 322-325 and 354-355:
\* an exception raised inside is caught there, so the call returns either
\* way and run goes on to delete_message.
ProcessMessageEnds(raised) == "delete"

\* The POST process_message makes for a result, lines 317-318 and 327-335:
\* none without a URL; an exception of send_webhook is caught by
\* process_message and logged, lines 324-325.
PostAndLog(d, status, outcome) ==
    LET sent == send_webhook(d.webhook_url, outcome) IN
    IF ~Truthy(d.webhook_url)
    THEN /\ w_pc' = ProcessMessageEnds(FALSE)
         /\ UNCHANGED <<w_webhooks, w_log>>
    ELSE IF sent \notin {"True", "False"}
    THEN /\ w_log' = [message |-> CurrentMessage, error |-> "Error processing message"]
         /\ w_pc' = ProcessMessageEnds(TRUE)
         /\ UNCHANGED w_webhooks
    ELSE /\ w_webhooks' = [message |-> CurrentMessage, url |-> d.webhook_url,
                           sent |-> sent, task_id |-> d.task_id, status |-> status]
         /\ w_pc' = ProcessMessageEnds(FALSE)
         /\ UNCHANGED w_log

\* process_message, lines 283-307 and 322-325: decode the message; return
\* at once for text that cannot be processed, else call handler.execute.
ProcessMessageStart ==
    /\ w_pc = "process"
    /\ LET d == decode_message(msg_content[CurrentMessage]) IN
         IF d.how = "execute"
         THEN /\ \E f \in HandlerFates : w_fate' = f
              /\ w_pc' = "executing"
              /\ UNCHANGED <<w_returned, w_webhooks, w_log>>
         ELSE /\ w_returned' = w_returned \cup {CurrentMessage}
              /\ w_fate' = None
              /\ IF d.how = "unknown"
                 THEN \E outcome \in PostOutcomes : PostAndLog(d, "failed", outcome)
                 ELSE /\ w_log' = [message |-> CurrentMessage, error |-> d.how]
                      /\ w_pc' = ProcessMessageEnds(TRUE)
                      /\ UNCHANGED w_webhooks
    /\ UNCHANGED <<queue, msg_content, running, w_messages, w_i, w_killed_in, w_shutdown_in>>
    /\ UNCHANGED rest_poll

\* process_message, lines 307-325: handler.execute returned or raised; post
\* the webhook and return.  A handler that hangs never gets here.
ProcessMessageFinish ==
    /\ w_pc = "executing"
    /\ w_fate \in {"completed", "failed", "raises"}
    /\ LET d == decode_message(msg_content[CurrentMessage]) IN
         IF w_fate = "raises"
         THEN /\ w_log' = [message |-> CurrentMessage, error |-> "Error processing message"]
              /\ w_pc' = ProcessMessageEnds(TRUE)
              /\ UNCHANGED w_webhooks
         ELSE \E outcome \in PostOutcomes : PostAndLog(d, w_fate, outcome)
    /\ w_returned' = w_returned \cup {CurrentMessage}
    /\ w_fate' = None
    /\ UNCHANGED <<queue, msg_content, running, w_messages, w_i, w_killed_in, w_shutdown_in>>
    /\ UNCHANGED rest_poll

\* The position of run after the message at w_i: the next message of the
\* batch, or the while test.
AfterMessage ==
    IF w_i < Len(w_messages)
    THEN w_pc' = FirstMessageStep /\ w_i' = w_i + 1
    ELSE w_pc' = "loop" /\ w_i' = 0

\* An acknowledgement kept for the messages that were processed without a
\* logged error: the others stay in the queue and are delivered again.
delete_message_unless_logged(q, m) == IF w_log.message = m THEN q ELSE [q EXCEPT ![m] = "deleted"]

\* delete_message, queue_service.py lines 235-246: the message is removed
\* from the queue.
delete_message(q, m) == [q EXCEPT ![m] = "deleted"]

\* run, line 355: delete_message removes the message from the queue.
RunDelete ==
    /\ w_pc = "delete"
    /\ queue' = delete_message(queue, CurrentMessage)
    /\ AfterMessage
    /\ UNCHANGED <<msg_content, running, w_messages, w_fate, w_returned,
                   w_killed_in, w_shutdown_in, w_webhooks, w_log>>
    /\ UNCHANGED rest_poll

\* run, lines 355 and 359-361: delete_message raised after its retries; the
\* error is logged, the rest of the batch is dropped and the loop sleeps.
RunDeleteFails ==
    /\ w_pc = "delete"
    /\ w_log' = [message |-> CurrentMessage, error |-> "Error in worker loop"]
    /\ w_pc' = "sleep"
    /\ w_i' = 0
    /\ UNCHANGED <<queue, msg_content, running, w_messages, w_fate, w_returned,
                   w_killed_in, w_shutdown_in, w_webhooks>>
    /\ UNCHANGED rest_poll

\* A shutdown that cancels the task of run: a handler in flight is aborted
\* by the CancelledError and run returns at once, lines 363-367.
ShutdownCancelling ==
    /\ w_pc \notin {"stopped", "killed"}
    /\ running
    /\ running' = FALSE
    /\ w_shutdown_in' = IF w_pc = "executing" THEN CurrentMessage ELSE 0
    /\ w_pc' = "stopped"
    /\ UNCHANGED <<queue, msg_content, w_messages, w_i, w_fate, w_returned,
                   w_killed_in, w_webhooks, w_log>>
    /\ UNCHANGED rest_poll

\* shutdown, lines 369-374: the signal handler clears self.running.
Shutdown ==
    /\ w_pc \notin {"stopped", "killed"}
    /\ running
    /\ running' = FALSE
    /\ w_shutdown_in' = IF w_pc = "executing" THEN CurrentMessage ELSE 0
    /\ UNCHANGED <<queue, msg_content, w_pc, w_messages, w_i, w_fate, w_returned,
                   w_killed_in, w_webhooks, w_log>>
    /\ UNCHANGED rest_poll

\* The worker process is killed at any point of run.
Kill ==
    /\ w_pc \notin {"stopped", "killed"}
    /\ w_killed_in' = IF w_pc = "executing" THEN CurrentMessage ELSE 0
    /\ w_pc' = "killed"
    /\ UNCHANGED <<queue, msg_content, running, w_messages, w_i, w_fate,
                   w_returned, w_shutdown_in, w_webhooks, w_log>>
    /\ UNCHANGED rest_poll

\* The visibility timeout of a received message ends: the queue shows it
\* again.
VisibilityTimeout ==
    /\ \E m \in Msgs :
         /\ queue[m] = "invisible"
         /\ queue' = [queue EXCEPT ![m] = "visible"]
    /\ UNCHANGED <<msg_content, w_pc, running, w_messages, w_i, w_fate,
                   w_returned, w_killed_in, w_shutdown_in, w_webhooks, w_log>>
    /\ UNCHANGED rest_poll

NextPoll ==
    \/ RunLoopExit
    \/ RunReceive
    \/ RunReceiveFails
    \/ RunWake
    \/ ProcessMessageStart
    \/ ProcessMessageFinish
    \/ RunDelete
    \/ RunDeleteFails
    \/ Shutdown
    \/ Kill
    \/ VisibilityTimeout

(***************************************************************************)
(* TaskQueue: AzureQueueService.submit_task under retry_with_backoff.      *)
(***************************************************************************)

\* AzureQueueService.MAX_MESSAGE_SIZE = 64 * 1024
MAX_MESSAGE_SIZE == 65536

\* retry_with_backoff(max_retries=3, base_delay=1.0, max_delay=10.0)
max_retries == 3
base_delay == 1
max_delay == 10

\* Sizes in bytes of json.dumps(payload) for the payloads submitted.
PayloadSizes == {2, 1000, 65490, 65497, 65500, 65501, 65536, 65537, 70000}

\* len(task_type)
StrLen(task_type) == IF task_type = "ingest" THEN 6 ELSE 9

\* Bytes of json.dumps({"task_type": task_type, "payload": payload}): the
\* 30 bytes of braces, keys and quotes around the two values.
DumpsSize(task_type, payload_size) == 30 + StrLen(task_type) + payload_size

\* Bytes of task_id + "|" + message: str(uuid.uuid4()) is 36 characters.
EnvelopeSize(message_size) == 36 + 1 + message_size

\* A size check against 64 MiB instead of 64 KiB.
MessageTooLargeMiB(message_size) == message_size > MAX_MESSAGE_SIZE * 1024

\* _validate_message_size, lines 185-194: TRUE when it raises ValueError.
MessageTooLarge(message_size) == message_size > MAX_MESSAGE_SIZE

Pow2(n) == IF n = 0 THEN 1 ELSE IF n = 1 THEN 2 ELSE IF n = 2 THEN 4 ELSE 8

Min(a, b) == IF a < b THEN a ELSE b

\* retry_with_backoff, line 35
Delay(attempt) == Min(base_delay * Pow2(attempt), max_delay)

\* The operations retry_with_backoff wraps, lines 196, 217 and 235.
QueueOps == {"submit_task", "receive_messages", "delete_message"}

\* The calls made: submit_task of a task, or receive_messages or
\* delete_message, which carry no task.
QueueCalls ==
    [op : {"submit_task"}, task_type : Handlers, payload_size : PayloadSizes,
     configured : BOOLEAN]
        \cup [op : QueueOps \ {"submit_task"}, task_type : {"ingest"},
              payload_size : {0}, configured : BOOLEAN]

InitQueue ==
    /\ q_pc = "call"
    /\ q_task \in QueueCalls
    /\ q_attempt = 0
    /\ q_sent = <<>>
    /\ q_slept = <<>>
    /\ q_error = None

\* An off-by-one in the retry test: a sleep and a further attempt after the
\* last allowed attempt.
AttemptFailedOneMore(e) ==
    IF q_attempt < max_retries
    THEN /\ q_slept' = Append(q_slept, Delay(q_attempt))
         /\ q_pc' = "sleep"
         /\ UNCHANGED q_error
    ELSE /\ q_error' = e
         /\ q_pc' = "raised"
         /\ UNCHANGED q_slept

\* retry_with_backoff, lines 32-42: an attempt raised e; sleep and retry, or
\* raise it after the last attempt.
AttemptFailed(e) ==
    IF q_attempt < max_retries - 1
    THEN /\ q_slept' = Append(q_slept, Delay(q_attempt))
         /\ q_pc' = "sleep"
         /\ UNCHANGED q_error
    ELSE /\ q_error' = e
         /\ q_pc' = "raised"
         /\ UNCHANGED q_slept

\* One attempt of submit_task, lines 197-215, of receive_messages, lines
\* 218-233, or of delete_message, lines 236-246, inside the wrapper, lines
\* 29-42: not configured, too large (submit_task), or handed to the queue
\* client, whose call succeeds or raises.
SubmitAttempt ==
    /\ q_pc = "call"
    /\ LET message_size == DumpsSize(q_task.task_type, q_task.payload_size) IN
         IF ~q_task.configured
         THEN AttemptFailed("RuntimeError") /\ UNCHANGED q_sent
         ELSE IF q_task.op = "submit_task" /\ MessageTooLarge(message_size)
         THEN AttemptFailed("ValueError") /\ UNCHANGED q_sent
         ELSE \E delivered \in BOOLEAN :
                /\ q_sent' = Append(q_sent, [size |-> IF q_task.op = "submit_task"
                                                      THEN EnvelopeSize(message_size)
                                                      ELSE 0,
                                             delivered |-> delivered])
                /\ IF delivered
                   THEN q_pc' = "returned" /\ UNCHANGED <<q_slept, q_error>>
                   ELSE AttemptFailed("HttpResponseError")
    /\ UNCHANGED <<q_task, q_attempt>>
    /\ UNCHANGED rest_queue

\* retry_with_backoff, lines 29 and 39: the sleep is over, next attempt.
SubmitRetry ==
    /\ q_pc = "sleep"
    /\ q_attempt' = q_attempt + 1
    /\ q_pc' = "call"
    /\ UNCHANGED <<q_task, q_sent, q_slept, q_error>>
    /\ UNCHANGED rest_queue

NextQueue ==
    \/ SubmitAttempt
    \/ SubmitRetry

\* No submit_task call in progress.
IdleQueue ==
    /\ q_pc = "idle"
    /\ q_task = [op |-> "submit_task", task_type |-> "ingest", payload_size |-> 0,
                 configured |-> FALSE]
    /\ q_attempt = 0
    /\ q_sent = <<>>
    /\ q_slept = <<>>
    /\ q_error = None

(***************************************************************************)
(* IngestionPipeline: ingest_docs_task and IngestionService.process_file.  *)
(***************************************************************************)

\* Number of ingestion tasks and longest list of files given to one.
NTasks == 2
MaxFiles == 1

Tasks == 1..NTasks

Filenames == {"a.txt", "b.txt"}
DocumentSets == {"demo", "other"}
Keys == Filenames \X DocumentSets

\* The file items given to tasks.
FileItems ==
    {[filename |-> "a.txt", document_set |-> "demo"],
     [filename |-> "a.txt", document_set |-> "other"],
     [filename |-> "b.txt", document_set |-> "demo"]}

FileLists ==
    UNION {[1..n -> FileItems] : n \in 1..MaxFiles}

\* Numbers of chunks the splitter gives for a converted document.
ChunkCounts == {0, 1, 200}

\* batch_size = 64
batch_size == 64

\* Number of upsert batches for n points: range(0, n, batch_size).
NumBatches(n) == (n + batch_size - 1) \div batch_size

\* len(points[i : i + batch_size]) for batch b, counted from 1.
BatchLen(n, b) == IF b < NumBatches(n) THEN batch_size ELSE n - (b - 1) * batch_size

RECURSIVE SumBatches(_, _)
SumBatches(n, S) ==
    IF S = {} THEN 0
    ELSE LET b == CHOOSE x \in S : TRUE IN BatchLen(n, b) + SumBatches(n, S \ {b})

SetMin(S) == CHOOSE x \in S : \A y \in S : x <= y

\* The upsert loop of ingest_docs_task, lines 326-336: given the batches
\* whose upsert raises, the batches attempted.  The first batch failing
\* re-raises; a later one failing is printed and the loop goes on.
TaskAttempted(n, failing) ==
    IF 1 \in failing THEN {1} ELSE 1..NumBatches(n)

\* The outcome ingest_docs_task appends after the upsert loop, lines 335-336
\* and 347-348.
TaskUpsertOutcome(n, failing) ==
    IF 1 \in failing THEN "Failed" ELSE "Indexed"

\* The upsert loop of process_file, lines 137-146: the first batch whose
\* upsert raises ends the loop with a return.
ServiceAttempted(n, failing) ==
    IF failing = {} THEN 1..NumBatches(n) ELSE 1..SetMin(failing)

ServiceUpsertOutcome(n, failing) ==
    IF failing = {} THEN "Indexed" ELSE "Upsert failed for batch"

Attempted(impl, n, failing) ==
    IF impl = "ingest_docs_task" THEN TaskAttempted(n, failing)
    ELSE ServiceAttempted(n, failing)

UpsertOutcome(impl, n, failing) ==
    IF impl = "ingest_docs_task" THEN TaskUpsertOutcome(n, failing)
    ELSE ServiceUpsertOutcome(n, failing)

\* The check "already indexed" of ingest_docs_task, lines 193-203: a count
\* of the points with this filename; a count that raises is passed over.
\* process_file has no such check.
AlreadyIndexed(impl, st, item, count_raises) ==
    /\ impl = "ingest_docs_task"
    /\ ~count_raises
    /\ \E k \in Keys : k[1] = item.filename /\ st[k] > 0

\* The position of a task that begins the file at index fi.
FileStart == "check"

CurrentItem(t) == ing_files[t][ing_fi[t]]

KeyOf(item) == <<item.filename, item.document_set>>

Outcome(item, had, count_failed, prior, kind, converted, embedded, attempted, failing, n) ==
    [filename |-> item.filename, document_set |-> item.document_set,
     had |-> had, count_failed |-> count_failed, prior |-> prior,
     outcome |-> kind, converted |-> converted,
     embedded |-> embedded, attempted |-> attempted, failed |-> failing,
     chunks |-> n]

\* Consecutive failures of the embedding service, counted from the first
\* call for a file.
MaxEmbedFailures == 3

\* The embedding calls made for one file: how many, the delays slept
\* between them, and the failures the service had in store.
Embedding(failures, attempts, slept) ==
    [failures |-> failures, attempts |-> attempts, slept |-> slept]

NoEmbed == Embedding(0, 0, <<>>)

\* The attempts allowed: range(3) in ingest_docs_task, line 304; a single
\* call in process_file, lines 123-126.
EmbedTries(impl) == IF impl = "ingest_docs_task" THEN 3 ELSE 1

\* time.sleep(2 * (attempt + 1)), line 316.
EmbedDelay(attempt) == 2 * (attempt + 1)

\* Lines 304-316: the calls made when the service fails `failures` times
\* in a row: one more than the failures, up to the attempts allowed.
EmbedAttempts(impl, failures) == Min(failures + 1, EmbedTries(impl))

EmbedSucceeds(impl, failures) == failures < EmbedTries(impl)

EmbedSlept(impl, failures) ==
    [k \in 1..(EmbedAttempts(impl, failures) - 1) |-> EmbedDelay(k - 1)]

\* What a call of the store's upsert does.  ingest_docs_task calls the
\* synchronous qdrant_client.upsert (line 331), which runs.  process_file
\* calls db_service.upsert_vectors as a plain function (line 141): with a
\* synchronous upsert_vectors the call runs the upsert; with the async def of
\* vector_db.py, line 154, the call only makes a coroutine that is never
\* awaited, so nothing is stored and nothing is raised.
UpsertCallRuns(impl) ==
    IF impl = "ingest_docs_task" THEN {TRUE} ELSE {TRUE, FALSE}

\* An ingest of the pair of `item` has already returned "Indexed ...".
IndexedBefore(item) ==
    \E u \in Tasks : \E j \in 1..Len(ing_results[u]) :
        /\ ing_results[u][j].filename = item.filename
        /\ ing_results[u][j].document_set = item.document_set
        /\ ing_results[u][j].outcome = "Indexed"

InitIngest ==
    /\ store = [k \in Keys |-> 0]
    /\ ing_impl \in {"ingest_docs_task", "process_file"}
    /\ ing_call_runs \in UpsertCallRuns(ing_impl)
    /\ ing_files \in [Tasks -> FileLists]
    /\ ing_pc = [t \in Tasks |-> "queued"]
    /\ ing_fi = [t \in Tasks |-> 0]
    /\ ing_had = [t \in Tasks |-> 0]
    /\ ing_count_failed = [t \in Tasks |-> FALSE]
    /\ ing_prior = [t \in Tasks |-> FALSE]
    /\ ing_chunks = [t \in Tasks |-> 0]
    /\ ing_results = [t \in Tasks |-> <<>>]
    /\ ing_embed = [t \in Tasks |-> NoEmbed]

\* A file's outcome is appended: on to the next file of the list, or the
\* task returns.
Append_Result(t, r) ==
    /\ ing_results' = [ing_results EXCEPT ![t] = Append(@, r)]
    /\ ing_chunks' = [ing_chunks EXCEPT ![t] = 0]
    /\ IF ing_fi[t] < Len(ing_files[t])
       THEN /\ ing_fi' = [ing_fi EXCEPT ![t] = @ + 1]
            /\ ing_pc' = [ing_pc EXCEPT ![t] = FileStart]
       ELSE /\ ing_fi' = [ing_fi EXCEPT ![t] = 0]
            /\ ing_pc' = [ing_pc EXCEPT ![t] = "done"]

\* ensure_collection_exists, lines 157-172, which ingest_docs_task calls at
\* line 181 before its loop and outside every try: with the store
\* unreachable get_collection and then create_collection raise, and an
\* error that is no conflict is raised again.  process_file and
\* _ingest_docs_async make no such call.
EnsureMayRaise(impl) ==
    IF impl = "ingest_docs_task" THEN BOOLEAN ELSE {FALSE}

\* A worker takes the task: the collection is ensured, which may raise out
\* of the task, and the loop over files_data begins.
IngestStart(t) ==
    /\ ing_pc[t] = "queued"
    /\ \E ensure_raises \in EnsureMayRaise(ing_impl) :
         IF ensure_raises
         THEN /\ ing_pc' = [ing_pc EXCEPT ![t] = "raised"]
              /\ UNCHANGED ing_fi
         ELSE /\ ing_pc' = [ing_pc EXCEPT ![t] = FileStart]
              /\ ing_fi' = [ing_fi EXCEPT ![t] = 1]
    /\ UNCHANGED <<store, ing_impl, ing_call_runs, ing_files, ing_had, ing_count_failed,
                   ing_prior, ing_chunks, ing_results, ing_embed>>
    /\ UNCHANGED rest_ingest

\* ingest_docs_task, lines 188-203: the check of the existing index; for
\* process_file, lines 55-57, the entry of the call.
IngestCheck(t) ==
    /\ ing_pc[t] = "check"
    /\ LET item == CurrentItem(t)
           had == store[KeyOf(item)]
       IN  \E count_raises \in BOOLEAN :
             IF AlreadyIndexed(ing_impl, store, item, count_raises)
             THEN /\ Append_Result(t, Outcome(item, had, FALSE,
                                              IndexedBefore(item),
                                              "Skipped: Already indexed",
                                              FALSE, FALSE, {}, {}, 0))
                  /\ UNCHANGED <<ing_had, ing_count_failed, ing_prior>>
             ELSE /\ ing_pc' = [ing_pc EXCEPT ![t] = "convert"]
                  /\ ing_had' = [ing_had EXCEPT ![t] = had]
                  /\ ing_prior' = [ing_prior EXCEPT ![t] = IndexedBefore(item)]
                  /\ ing_count_failed' =
                        [ing_count_failed EXCEPT
                           ![t] = (ing_impl = "ingest_docs_task" /\ count_raises)]
                  /\ UNCHANGED <<ing_fi, ing_chunks, ing_results>>
    /\ UNCHANGED <<store, ing_impl, ing_call_runs, ing_files, ing_embed>>
    /\ UNCHANGED rest_ingest

ConversionFailure(impl) ==
    IF impl = "ingest_docs_task" THEN "Failed" ELSE "Conversion failed"

EmbeddingFailure(impl) ==
    IF impl = "ingest_docs_task" THEN "Failed" ELSE "Embedding failed"

\* ingest_docs_task, lines 281-316 and 347-348; process_file, lines 90-126:
\* convert, chunk and embed.  The converter raises or gives a document of n
\* chunks; the embedding call gives the vectors or fails for good.
IngestConvertEmbed(t) ==
    /\ ing_pc[t] = "convert"
    /\ LET item == CurrentItem(t)
           had == ing_had[t]
       IN  \E converts \in BOOLEAN, n \in ChunkCounts, failures \in 0..MaxEmbedFailures :
             IF ~converts
             THEN /\ Append_Result(t, Outcome(item, had, ing_count_failed[t], ing_prior[t],
                                              ConversionFailure(ing_impl),
                                              TRUE, FALSE, {}, {}, 0))
                  /\ ing_embed' = [ing_embed EXCEPT ![t] = NoEmbed]
             ELSE IF n = 0
             THEN /\ Append_Result(t, Outcome(item, had, ing_count_failed[t], ing_prior[t],
                                              "Skipped: No content extracted",
                                              TRUE, FALSE, {}, {}, 0))
                  /\ ing_embed' = [ing_embed EXCEPT ![t] = NoEmbed]
             ELSE /\ ing_embed' = [ing_embed EXCEPT ![t] =
                                     Embedding(failures, EmbedAttempts(ing_impl, failures),
                                               EmbedSlept(ing_impl, failures))]
                  /\ IF ~EmbedSucceeds(ing_impl, failures)
                     THEN Append_Result(t, Outcome(item, had, ing_count_failed[t],
                                                   ing_prior[t], EmbeddingFailure(ing_impl),
                                                   TRUE, TRUE, {}, {}, n))
                     ELSE /\ ing_chunks' = [ing_chunks EXCEPT ![t] = n]
                          /\ ing_pc' = [ing_pc EXCEPT ![t] = "upsert"]
                          /\ UNCHANGED <<ing_fi, ing_results>>
    /\ UNCHANGED <<store, ing_impl, ing_call_runs, ing_files, ing_had, ing_count_failed, ing_prior>>
    /\ UNCHANGED rest_ingest

\* ingest_docs_task, lines 318-336; process_file, lines 129-146: the points
\* are upserted batch by batch; `failing` are the batches whose upsert
\* raises when attempted.  A batch that raises stores nothing; a call that
\* does not run the upsert raises nothing and stores nothing.
IngestUpsert(t) ==
    /\ ing_pc[t] = "upsert"
    /\ LET item == CurrentItem(t)
           n == ing_chunks[t]
       IN  \E failing \in (IF ing_call_runs THEN SUBSET (1..NumBatches(n)) ELSE {{}}) :
             LET attempted == Attempted(ing_impl, n, failing)
                 stored == IF ing_call_runs
                           THEN SumBatches(n, attempted \ failing) ELSE 0
             IN  /\ store' = [store EXCEPT ![KeyOf(item)] = @ + stored]
                 /\ Append_Result(t, Outcome(item, ing_had[t], ing_count_failed[t], ing_prior[t],
                                             UpsertOutcome(ing_impl, n, failing),
                                             TRUE, TRUE, attempted,
                                             attempted \cap failing, n))
    /\ UNCHANGED <<ing_impl, ing_call_runs, ing_files, ing_had, ing_count_failed, ing_prior,
                   ing_embed>>
    /\ UNCHANGED rest_ingest

NextIngest ==
    \E t \in Tasks :
        \/ IngestStart(t)
        \/ IngestCheck(t)
        \/ IngestConvertEmbed(t)
        \/ IngestUpsert(t)

\* No ingestion task, an empty index.
IdleIngest ==
    /\ store = [k \in Keys |-> 0]
    /\ ing_impl = "ingest_docs_task"
    /\ ing_call_runs = TRUE
    /\ ing_files = [t \in Tasks |-> <<>>]
    /\ ing_pc = [t \in Tasks |-> "done"]
    /\ ing_fi = [t \in Tasks |-> 0]
    /\ ing_had = [t \in Tasks |-> 0]
    /\ ing_count_failed = [t \in Tasks |-> FALSE]
    /\ ing_prior = [t \in Tasks |-> FALSE]
    /\ ing_chunks = [t \in Tasks |-> 0]
    /\ ing_results = [t \in Tasks |-> <<>>]
    /\ ing_embed = [t \in Tasks |-> NoEmbed]

(***************************************************************************)
(* VectorStore search: VectorDBService.search and search_documents.        *)
(***************************************************************************)

\* Largest number of chunks in the index and largest limit asked for.
MaxRows == 4
MaxLimit == 2

\* group_size=3 of query_points_groups
group_size == 3

\* The chunks an index can hold, by filename and document set.
RowValues ==
    {[filename |-> "a.txt", document_set |-> "demo"],
     [filename |-> "b.txt", document_set |-> "demo"],
     [filename |-> "b.txt", document_set |-> "other"],
     [filename |-> "c.txt", document_set |-> "other"]}

RowLists == UNION {[1..n -> RowValues] : n \in 0..MaxRows}

Take(seq, n) == SubSeq(seq, 1, Min(n, Len(seq)))

\* The WHERE clause of search, lines 123-125.
MatchesSet(row, document_set) ==
    (Truthy(document_set) /\ document_set # "all") => row.document_set = document_set

RECURSIVE Where(_, _)
Where(rows, document_set) ==
    IF rows = <<>> THEN <<>>
    ELSE (IF MatchesSet(Head(rows), document_set) THEN <<Head(rows)>> ELSE <<>>)
         \o Where(Tail(rows), document_set)

\* VectorDBService.search, lines 114-149: the rows of the document set in
\* order of distance, cut by LIMIT, with the limit as the parameter of LIMIT
\* that the comments of lines 126-129 name.  Line 131 writes LIMIT ${idx-1},
\* the parameter before that one; a server that rejects this query gives
\* the [] of a query that fails, lines 150-152, which is a search over no
\* rows here and the backend "query_fails" of StoreSearch.
VectorSearch(rows, limit, document_set) == Take(Where(rows, document_set), limit)

\* The filenames of rows in order of first appearance.
RECURSIVE GroupKeys(_, _)
GroupKeys(rows, seen) ==
    IF rows = <<>> THEN <<>>
    ELSE IF Head(rows).filename \in seen THEN GroupKeys(Tail(rows), seen)
    ELSE <<Head(rows).filename>>
         \o GroupKeys(Tail(rows), seen \cup {Head(rows).filename})

RECURSIVE HitsOf(_, _)
HitsOf(rows, filename) ==
    IF rows = <<>> THEN <<>>
    ELSE (IF Head(rows).filename = filename THEN <<Head(rows)>> ELSE <<>>)
         \o HitsOf(Tail(rows), filename)

RECURSIVE Flatten(_, _)
Flatten(rows, keys) ==
    IF keys = <<>> THEN <<>>
    ELSE Take(HitsOf(rows, Head(keys)), group_size) \o Flatten(rows, Tail(keys))

RECURSIVE FlattenBy(_, _, _)
FlattenBy(rows, keys, size) ==
    IF keys = <<>> THEN <<>>
    ELSE Take(HitsOf(rows, Head(keys)), size) \o FlattenBy(rows, Tail(keys), size)

\* A grouped search with limit and group_size passed the wrong way round.
GroupedSearchSwapped(rows, limit) ==
    FlattenBy(rows, Take(GroupKeys(rows, {}), group_size), limit)

\* search_documents, lines 71-88: query_points_groups gives the `limit`
\* nearest groups by filename, each of its group_size nearest chunks; the
\* groups are flattened.
GroupedSearch(rows, limit) == Flatten(rows, Take(GroupKeys(rows, {}), limit))

InitSearch ==
    /\ sr_pc = "call"
    /\ sr_impl \in {"VectorDBService.search", "search_documents"}
    /\ sr_rows \in RowLists
    /\ sr_limit \in 0..MaxLimit
    /\ sr_document_set \in {None, "all", "demo"}
    /\ sr_available \in BOOLEAN
    /\ sr_results = <<>>

\* One call of search (lines 101-152; an unavailable backend gives []) or
\* of search_documents (lines 43-88; no collection gives []).
Search ==
    /\ sr_pc = "call"
    /\ sr_results' =
         IF ~sr_available THEN <<>>
         ELSE IF sr_impl = "VectorDBService.search"
         THEN VectorSearch(sr_rows, sr_limit, sr_document_set)
         ELSE GroupedSearch(sr_rows, sr_limit)
    /\ sr_pc' = "returned"
    /\ UNCHANGED <<sr_impl, sr_rows, sr_limit, sr_document_set, sr_available>>
    /\ UNCHANGED rest_search

NextSearch == Search

\* No search in progress.
IdleSearch ==
    /\ sr_pc = "idle"
    /\ sr_impl = "VectorDBService.search"
    /\ sr_rows = <<>>
    /\ sr_limit = 0
    /\ sr_document_set = None
    /\ sr_available = FALSE
    /\ sr_results = <<>>

(***************************************************************************)
(* VectorStore: VectorDBService over the documents table.                  *)
(***************************************************************************)

\* Calls made on the service in one run, and rows a pair can have.
MaxCalls == 2
MaxChunks == 2

\* The backend during a call: reachable; no pool (DATABASE_CONN_STRING not
\* set, or create_pool failed: get_pool returns None); a pool whose query
\* raises.
Backends == {"ok", "no_pool", "query_fails"}

\* Values of the document_set argument.
DocumentSetArgs == {None, "", "all", "demo", "other"}

NoCall == [op |-> None, filename |-> None, document_set |-> None, n |-> 0]

StoreCall(op, filename, document_set, n) ==
    [op |-> op, filename |-> filename, document_set |-> document_set, n |-> n]

RECURSIVE SumRows(_, _)
SumRows(table, K) ==
    IF K = {} THEN 0
    ELSE LET k == CHOOSE x \in K : TRUE IN table[k] + SumRows(table, K \ {k})

\* delete_document, lines 204-208: the WHERE clause of the DELETE.
DeleteMatches(k, filename, document_set) ==
    /\ k[1] = filename
    /\ (Truthy(document_set) /\ document_set # "all") => k[2] = document_set

InitStore ==
    /\ db_pc = "ready"
    /\ db_table \in [Keys -> 0..MaxChunks]
    /\ db_before = db_table
    /\ db_schema_verified \in BOOLEAN
    /\ db_backend = "ok"
    /\ db_call = NoCall
    /\ db_ret = None
    /\ db_result = 0
    /\ db_ncalls = 0

\* What every call does before its own work.
BeginCall(call, backend) ==
    /\ db_pc = "ready"
    /\ db_ncalls < MaxCalls
    /\ db_ncalls' = db_ncalls + 1
    /\ db_call' = call
    /\ db_backend' = backend
    /\ db_before' = db_table
    /\ UNCHANGED db_pc

\* upsert_vectors, lines 154-194, of n points of one pair.  An unverified
\* schema is ensured first (lines 60-94: nothing without a pool, a raise when
\* the query fails); without a pool or without points the call returns; else
\* the rows are inserted, or the failing query raises.
UpsertVectors ==
    \E backend \in Backends, k \in Keys, n \in 0..1 :
        /\ db_table[k] + n <= MaxChunks
        /\ BeginCall(StoreCall("upsert_vectors", k[1], k[2], n), backend)
        /\ db_schema_verified' = (db_schema_verified \/ backend = "ok")
        /\ IF backend = "query_fails" /\ (~db_schema_verified \/ n > 0)
           THEN db_ret' = "raised" /\ UNCHANGED db_table
           ELSE IF backend = "no_pool" \/ n = 0
           THEN db_ret' = "returned" /\ UNCHANGED db_table
           ELSE /\ db_ret' = "returned"
                /\ db_table' = [db_table EXCEPT ![k] = @ + n]
        /\ UNCHANGED db_result
        /\ UNCHANGED rest_store

\* delete_document, lines 196-214: without a pool the call returns; else the
\* DELETE runs, or the failing query raises.
DeleteDocument ==
    \E backend \in Backends, filename \in Filenames, document_set \in DocumentSetArgs :
        /\ BeginCall(StoreCall("delete_document", filename, document_set, 0), backend)
        /\ IF backend = "no_pool"
           THEN db_ret' = "returned" /\ UNCHANGED db_table
           ELSE IF backend = "query_fails"
           THEN db_ret' = "raised" /\ UNCHANGED db_table
           ELSE /\ db_ret' = "returned"
                /\ db_table' = [k \in Keys |->
                                  IF DeleteMatches(k, filename, document_set)
                                  THEN 0 ELSE db_table[k]]
        /\ UNCHANGED <<db_result, db_schema_verified>>
        /\ UNCHANGED rest_store

\* list_documents, lines 216-243: [] without a pool or when the query fails.
ListDocuments ==
    \E backend \in Backends, limit \in 1..MaxLimit :
        /\ BeginCall(StoreCall("list_documents", None, None, limit), backend)
        /\ db_ret' = "returned"
        /\ db_result' = IF backend = "ok"
                        THEN Min(limit, SumRows(db_table, Keys)) ELSE 0
        /\ UNCHANGED <<db_table, db_schema_verified>>
        /\ UNCHANGED rest_store

\* search, lines 101-152, by the number of rows it returns: [] without a
\* pool or when the query fails.
StoreSearch ==
    \E backend \in Backends, limit \in 1..MaxLimit, document_set \in DocumentSetArgs :
        /\ BeginCall(StoreCall("search", None, document_set, limit), backend)
        /\ db_ret' = "returned"
        /\ db_result' =
             IF backend = "ok"
             THEN Min(limit,
                      SumRows(db_table,
                              {k \in Keys : MatchesSet([document_set |-> k[2]],
                                                       document_set)}))
             ELSE 0
        /\ UNCHANGED <<db_table, db_schema_verified>>
        /\ UNCHANGED rest_store

NextStore ==
    \/ UpsertVectors
    \/ DeleteDocument
    \/ ListDocuments
    \/ StoreSearch

\* No call on the service.
IdleStore ==
    /\ db_pc = "idle"
    /\ db_table = [k \in Keys |-> 0]
    /\ db_before = db_table
    /\ db_schema_verified = FALSE
    /\ db_backend = "ok"
    /\ db_call = NoCall
    /\ db_ret = None
    /\ db_result = 0
    /\ db_ncalls = 0

(***************************************************************************)
(* File watcher: DocumentHandler.on_created and the periodic               *)
(* reconciliation of check_unindexed_files_loop.                           *)
(***************************************************************************)

\* Reconciliation passes made.
MaxPasses == 2

\* File names under the monitored root, by their characters.
WatchedNames == {<<"a">>, <<"b">>, <<".", "k">>}

\* os.path.join(root, filename), line 94; event.src_path, line 21.
FilePath(filename) == <<"/monitored/">> \o filename

\* The file name of a path.
Basename(filepath) == Tail(filepath)

WatchedPaths == {FilePath(n) : n \in WatchedNames}

\* filename.startswith('.'), line 91.
StartsWithDot(filename) == Head(filename) = "."

\* What is at a path: nothing, a file of 0 bytes, a file with content, a
\* file that open() cannot read, or an entry that os.walk lists and
\* os.path.getsize raises on (a dangling symbolic link, a file removed
\* after it was listed).
EntryKinds == {"absent", "empty", "data", "unreadable", "dangling"}

\* The files os.walk yields, line 89-90, in any order.
Listed(fs) == {p \in WatchedPaths : fs[p] # "absent"}

WalkOrders(S) == {b \in Batches(S) : Len(b) = Cardinality(S)}

\* get_indexed_filenames, lines 41-72: the filenames of all points; when a
\* call of the store raises, the names gathered so far, lines 69-72.
IndexedFilenames(index, scroll_ok) ==
    IF scroll_ok THEN {index} ELSE SUBSET index

InitWatch ==
    /\ fw_pc = "sleep"
    /\ fw_fs \in [WatchedPaths -> EntryKinds]
    /\ fw_index = {}
    /\ fw_pending = {}
    /\ fw_pass = 0
    /\ fw_index_at = {}
    /\ fw_registry = {}
    /\ fw_walk = <<>>
    /\ fw_files_to_index = <<>>
    /\ fw_submitted = {}
    /\ fw_last = None
    /\ fw_by_pass = {}
    /\ fw_missed = {}

\* check_unindexed_files_loop, lines 81-89: the sleep is over, the registry
\* is fetched and the walk of the tree begins.
PassBegin ==
    /\ fw_pc = "sleep"
    /\ fw_pass < MaxPasses
    /\ fw_pass' = fw_pass + 1
    /\ \E scroll_ok \in BOOLEAN :
         fw_registry' \in IndexedFilenames(fw_index, scroll_ok)
    /\ fw_index_at' = fw_index
    /\ fw_walk' \in WalkOrders(Listed(fw_fs))
    /\ fw_files_to_index' = <<>>
    /\ fw_submitted' = {}
    /\ fw_pc' = "walk"
    /\ UNCHANGED <<fw_fs, fw_index, fw_pending, fw_last, fw_by_pass, fw_missed>>
    /\ UNCHANGED rest_watch

\* Lines 90-110 for one file of the walk: hidden names and registered paths
\* are passed over, a file of 0 bytes is skipped, a file that cannot be
\* read is logged, any other file joins files_to_index.  getsize is
\* outside the inner try: when it raises, the except of line 120 ends the
\* pass and files_to_index is dropped.
WalkFile ==
    /\ fw_pc = "walk"
    /\ fw_walk # <<>>
    /\ LET filepath == Head(fw_walk) IN
         IF StartsWithDot(Basename(filepath)) \/ filepath \in fw_registry
         THEN /\ fw_walk' = Tail(fw_walk)
              /\ UNCHANGED <<fw_pc, fw_files_to_index, fw_last>>
         ELSE IF fw_fs[filepath] = "dangling"
         THEN /\ fw_pc' = "sleep"
              /\ fw_last' = "error"
              /\ fw_walk' = <<>>
              /\ fw_files_to_index' = <<>>
         ELSE /\ fw_walk' = Tail(fw_walk)
              /\ fw_files_to_index' =
                    IF fw_fs[filepath] = "data"
                    THEN Append(fw_files_to_index, filepath) ELSE fw_files_to_index
              /\ UNCHANGED <<fw_pc, fw_last>>
    /\ UNCHANGED <<fw_fs, fw_index, fw_pending, fw_pass, fw_index_at, fw_registry,
                   fw_submitted, fw_by_pass, fw_missed>>
    /\ UNCHANGED rest_watch

\* Line 112: the walk is over, the files found are queued.
WalkEnd ==
    /\ fw_pc = "walk"
    /\ fw_walk = <<>>
    /\ fw_pc' = "queue"
    /\ UNCHANGED <<fw_fs, fw_index, fw_pending, fw_pass, fw_index_at, fw_registry,
                   fw_walk, fw_files_to_index, fw_submitted, fw_last, fw_by_pass,
                   fw_missed>>
    /\ UNCHANGED rest_watch

\* Lines 114-116 and 120-121: callback([file_item]) submits one file; a
\* callback that raises (ingest_docs_task.delay without its broker,
\* backend_app.py line 42) ends the pass.
QueueFile ==
    /\ fw_pc = "queue"
    /\ fw_files_to_index # <<>>
    /\ LET filepath == Head(fw_files_to_index) IN
         \E delivered \in BOOLEAN :
           IF delivered
           THEN /\ fw_submitted' = fw_submitted \cup {filepath}
                /\ fw_by_pass' = fw_by_pass \cup {filepath}
                /\ fw_pending' = fw_pending \cup {filepath}
                /\ fw_files_to_index' = Tail(fw_files_to_index)
                /\ UNCHANGED <<fw_pc, fw_last>>
           ELSE /\ fw_pc' = "sleep"
                /\ fw_last' = "error"
                /\ fw_files_to_index' = <<>>
                /\ UNCHANGED <<fw_submitted, fw_by_pass, fw_pending>>
    /\ UNCHANGED <<fw_fs, fw_index, fw_pass, fw_index_at, fw_registry, fw_walk,
                   fw_missed>>
    /\ UNCHANGED rest_watch

\* Lines 112-118 and 79-81: every file found was queued; back to the sleep.
PassEnd ==
    /\ fw_pc = "queue"
    /\ fw_files_to_index = <<>>
    /\ fw_pc' = "sleep"
    /\ fw_last' = "done"
    /\ UNCHANGED <<fw_fs, fw_index, fw_pending, fw_pass, fw_index_at, fw_registry,
                   fw_walk, fw_files_to_index, fw_submitted, fw_by_pass, fw_missed>>
    /\ UNCHANGED rest_watch

\* What on_created does for a new entry, lines 17-39: "skip" for a file of
\* 0 bytes, "error" when it cannot be read, else "callback".  The name is
\* not looked at.
on_created(kind) ==
    IF kind = "empty" THEN "skip"
    ELSE IF kind \in {"unreadable", "dangling"} THEN "error"
    ELSE "callback"

\* A file appears under the monitored root between two passes.  The
\* observer sees the creation or not (it is not running, or the event is
\* dropped); the callback of an observed file submits it or raises.
FileCreated ==
    /\ fw_pc = "sleep"
    /\ \E filepath \in WatchedPaths, kind \in EntryKinds \ {"absent"},
          observed \in BOOLEAN, delivered \in BOOLEAN :
         /\ fw_fs[filepath] = "absent"
         /\ fw_fs' = [fw_fs EXCEPT ![filepath] = kind]
         /\ IF observed /\ on_created(kind) = "callback" /\ delivered
            THEN /\ fw_pending' = fw_pending \cup {filepath}
                 /\ UNCHANGED fw_missed
            ELSE /\ fw_missed' = fw_missed \cup {filepath}
                 /\ UNCHANGED fw_pending
    /\ UNCHANGED <<fw_pc, fw_index, fw_pass, fw_index_at, fw_registry, fw_walk,
                   fw_files_to_index, fw_submitted, fw_last, fw_by_pass>>
    /\ UNCHANGED rest_watch

\* The writer of a file that was created with 0 bytes writes its content;
\* DocumentHandler handles no modification event.
FileWritten ==
    /\ fw_pc = "sleep"
    /\ \E filepath \in WatchedPaths :
         /\ fw_fs[filepath] = "empty"
         /\ fw_fs' = [fw_fs EXCEPT ![filepath] = "data"]
    /\ UNCHANGED <<fw_pc, fw_index, fw_pending, fw_pass, fw_index_at, fw_registry,
                   fw_walk, fw_files_to_index, fw_submitted, fw_last, fw_by_pass,
                   fw_missed>>
    /\ UNCHANGED rest_watch

\* The ingestion task of a submitted file runs: the file is indexed, or
\* the task fails or is lost.
TaskRuns ==
    /\ \E filepath \in fw_pending, indexed \in BOOLEAN :
         /\ fw_pending' = fw_pending \ {filepath}
         /\ IF indexed
            THEN fw_index' = fw_index \cup {filepath} /\ UNCHANGED fw_missed
            ELSE fw_missed' = fw_missed \cup {filepath} /\ UNCHANGED fw_index
    /\ UNCHANGED <<fw_pc, fw_fs, fw_pass, fw_index_at, fw_registry, fw_walk,
                   fw_files_to_index, fw_submitted, fw_last, fw_by_pass>>
    /\ UNCHANGED rest_watch

\* A document is deleted from the index.
IndexDeleted ==
    /\ \E filepath \in fw_index : fw_index' = fw_index \ {filepath}
    /\ UNCHANGED <<fw_pc, fw_fs, fw_pending, fw_pass, fw_index_at, fw_registry,
                   fw_walk, fw_files_to_index, fw_submitted, fw_last, fw_by_pass,
                   fw_missed>>
    /\ UNCHANGED rest_watch

NextWatch ==
    \/ PassBegin
    \/ WalkFile
    \/ WalkEnd
    \/ QueueFile
    \/ PassEnd
    \/ FileCreated
    \/ FileWritten
    \/ TaskRuns
    \/ IndexDeleted

\* No watcher, an empty tree.
IdleWatch ==
    /\ fw_pc = "off"
    /\ fw_fs = [p \in WatchedPaths |-> "absent"]
    /\ fw_index = {}
    /\ fw_pending = {}
    /\ fw_pass = 0
    /\ fw_index_at = {}
    /\ fw_registry = {}
    /\ fw_walk = <<>>
    /\ fw_files_to_index = <<>>
    /\ fw_submitted = {}
    /\ fw_last = None
    /\ fw_by_pass = {}
    /\ fw_missed = {}

(***************************************************************************)
(* Legacy .xls inputs: the temporary .xlsx file of ingest_docs_task,       *)
(* process_file and summarize_document.                                    *)
(***************************************************************************)

XlsImpls == {"ingest_docs_task", "process_file", "summarize_document"}

InitXls ==
    /\ xl_pc = "start"
    /\ xl_impl \in XlsImpls
    /\ xl_source \in {"content", "filepath"}
    /\ xl_removable \in BOOLEAN
    /\ xl_temp = FALSE
    /\ xl_ref = FALSE
    /\ xl_outcome = None

\* if temp_file_to_cleanup and os.path.exists(...): os.remove(...), with the
\* error of os.remove passed over: async_tasks.py lines 338-344,
\* ingestion.py lines 100-105, summarizer.py lines 99-103 and 167-171.
\* The file on disk after it.
Removed(temp, ref, removable) == IF ref /\ removable THEN FALSE ELSE temp

\* Whether the exit of this kind runs the cleanup.  ingest_docs_task has it
\* in the finally of its inner try, lines 338-344, which every exit passes.
\* process_file and summarize_document return from the except of the .xls
\* conversion and from the except of the document conversion without it
\* (ingestion.py lines 80-81 and 107-108; summarizer.py lines 63-65 and
\* 95-97).
CleansUpOnError(impl) == impl = "ingest_docs_task"

\* The operation returns `outcome`; cleanup tells whether the exit runs the
\* cleanup.
XlsReturn(outcome, cleanup) ==
    /\ xl_pc' = "returned"
    /\ xl_outcome' = outcome
    /\ xl_temp' = IF cleanup THEN Removed(xl_temp, xl_ref, xl_removable) ELSE xl_temp
    /\ UNCHANGED xl_ref

XlsConversionFailure(impl) ==
    IF impl = "summarize_document" THEN "Error: Failed to convert .xls file"
    ELSE "Failed to convert .xls"

\* pd.read_excel of the input: async_tasks.py lines 258-262, ingestion.py
\* lines 66-70, summarizer.py lines 42-46.
XlsRead ==
    /\ xl_pc = "start"
    /\ \E ok \in BOOLEAN :
         IF ok
         THEN xl_pc' = "read" /\ UNCHANGED <<xl_temp, xl_ref, xl_outcome>>
         ELSE XlsReturn(XlsConversionFailure(xl_impl), CleansUpOnError(xl_impl))
    /\ UNCHANGED <<xl_impl, xl_source, xl_removable>>
    /\ UNCHANGED rest_xls

\* tempfile.NamedTemporaryFile(suffix='.xlsx', delete=False) creates the
\* file.  process_file and summarize_document store its name in their
\* cleanup variable at once (ingestion.py line 73, summarizer.py line 50);
\* ingest_docs_task keeps it in temp_xlsx_path (line 266) and sets
\* temp_file_to_cleanup only after the sheets are written (line 276).
XlsCreateTemp ==
    /\ xl_pc = "read"
    /\ xl_temp' = TRUE
    /\ xl_ref' = (xl_impl # "ingest_docs_task")
    /\ xl_pc' = "created"
    /\ UNCHANGED <<xl_impl, xl_source, xl_removable, xl_outcome>>
    /\ UNCHANGED rest_xls

\* The sheets are written with pd.ExcelWriter: async_tasks.py lines
\* 270-279, ingestion.py lines 76-81, summarizer.py lines 54-65.
XlsWrite ==
    /\ xl_pc = "created"
    /\ \E ok \in BOOLEAN :
         IF ok
         THEN /\ xl_pc' = "written"
              /\ xl_ref' = TRUE
              /\ UNCHANGED <<xl_temp, xl_outcome>>
         ELSE XlsReturn(XlsConversionFailure(xl_impl), CleansUpOnError(xl_impl))
    /\ UNCHANGED <<xl_impl, xl_source, xl_removable>>
    /\ UNCHANGED rest_xls

\* converter.convert(source) and export_to_markdown.  ingest_docs_task,
\* lines 281-283: an exception passes the finally and becomes "Failed".
\* process_file, lines 90-108: the file is removed after a conversion that
\* succeeds.  summarize_document, lines 93-103 and 165-174: after the
\* conversion line 98 evaluates the name `final`, which is not defined; the
\* NameError reaches the outer except, which removes the file.
XlsConvert ==
    /\ xl_pc = "written"
    /\ \E ok \in BOOLEAN :
         IF ~ok
         THEN XlsReturn(IF xl_impl = "ingest_docs_task" THEN "Failed"
                        ELSE IF xl_impl = "process_file" THEN "Conversion failed"
                        ELSE "Error reading document",
                        CleansUpOnError(xl_impl))
         ELSE IF xl_impl = "summarize_document"
         THEN XlsReturn("Summarization failed", TRUE)
         ELSE /\ xl_pc' = "converted"
              /\ xl_temp' = IF xl_impl = "process_file"
                            THEN Removed(xl_temp, xl_ref, xl_removable) ELSE xl_temp
              /\ UNCHANGED <<xl_ref, xl_outcome>>
    /\ UNCHANGED <<xl_impl, xl_source, xl_removable>>
    /\ UNCHANGED rest_xls

\* Chunking: no chunk gives "Skipped ... No content extracted."
XlsChunk ==
    /\ xl_pc = "converted"
    /\ \E any \in BOOLEAN :
         IF any
         THEN xl_pc' = "chunked" /\ UNCHANGED <<xl_temp, xl_ref, xl_outcome>>
         ELSE XlsReturn("Skipped: No content extracted", TRUE)
    /\ UNCHANGED <<xl_impl, xl_source, xl_removable>>
    /\ UNCHANGED rest_xls

\* Embedding, after its retries.
XlsEmbed ==
    /\ xl_pc = "chunked"
    /\ \E ok \in BOOLEAN :
         IF ok
         THEN xl_pc' = "embedded" /\ UNCHANGED <<xl_temp, xl_ref, xl_outcome>>
         ELSE XlsReturn(EmbeddingFailure(xl_impl), TRUE)
    /\ UNCHANGED <<xl_impl, xl_source, xl_removable>>
    /\ UNCHANGED rest_xls

\* The upsert of the points and the return of the outcome of the file.
XlsUpsert ==
    /\ xl_pc = "embedded"
    /\ \E ok \in BOOLEAN :
         XlsReturn(IF ok THEN "Indexed" ELSE UpsertOutcome(xl_impl, 1, {1}), TRUE)
    /\ UNCHANGED <<xl_impl, xl_source, xl_removable>>
    /\ UNCHANGED rest_xls

NextXls ==
    \/ XlsRead
    \/ XlsCreateTemp
    \/ XlsWrite
    \/ XlsConvert
    \/ XlsChunk
    \/ XlsEmbed
    \/ XlsUpsert

\* No .xls input.
IdleXls ==
    /\ xl_pc = "idle"
    /\ xl_impl = "ingest_docs_task"
    /\ xl_source = "content"
    /\ xl_removable = TRUE
    /\ xl_temp = FALSE
    /\ xl_ref = FALSE
    /\ xl_outcome = None

(***************************************************************************)
(* The ingest handler: IngestionHandler.execute, the pipeline outcome it   *)
(* wraps, and the webhook and exit code run derives from its result.       *)
(***************************************************************************)

\* What azure_storage_service.download_file returns, azure_storage.py lines
\* 35-46: None when the download raised, the bytes of the blob otherwise,
\* which are b"" for a blob of 0 bytes.
Blobs == {None, "b''", "bytes"}

\* `not content`, line 58.
NotContent(content) == content \in {None, "b''"}

\* What a call of process_file did: the outcome string it returned (or
\* "raised"), the chunks of the document, the batches whose upsert it
\* attempted.
PipelineRun(outcome, n, attempted) ==
    [outcome |-> outcome, chunks |-> n, attempted |-> attempted]

NoPipeline == PipelineRun(None, 0, {})

\* The runs of the awaited process_file(filename, content=content,
\* document_set=...) of the worker's services.ingestion: pipeline errors
\* are captured as outcome strings, never raised, so a run ends with the
\* outcome string of a conversion, embedding or upsert failure, of a
\* document without chunks or of an indexed document (the strings are those
\* of backend/services/ingestion.py, lines 55-146).
PipelineRuns ==
    {PipelineRun(ConversionFailure("process_file"), 0, {}),
     PipelineRun("Skipped: No content extracted", 0, {})}
        \cup {PipelineRun(EmbeddingFailure("process_file"), n, {}) : n \in ChunkCounts \ {0}}
        \cup UNION {{PipelineRun(ServiceUpsertOutcome(n, failing), n,
                                 ServiceAttempted(n, failing)) :
                        failing \in SUBSET (1..NumBatches(n))} : n \in ChunkCounts \ {0}}

\* The dictionaries execute returns, lines 67 and 70.
HandlerCompleted(result) == [status |-> "completed", result |-> result, error |-> None]
HandlerFailed(error) == [status |-> "failed", result |-> None, error |-> error]

NoHandlerResult == [status |-> None, result |-> None, error |-> None]

NoHandlerPost == [status |-> None, sent |-> None]

InitHandler ==
    /\ ih_pc = "execute"
    /\ ih_payload \in FileItems
    /\ ih_webhook_url \in {"https://sink/hook", ""}
    /\ ih_blob \in Blobs
    /\ ih_pipeline = NoPipeline
    /\ ih_result = NoHandlerResult
    /\ ih_posted = NoHandlerPost
    /\ ih_exit = <<>>

\* execute, lines 56-59 and 68-70: the blob is downloaded; without content
\* ValueError is raised, which the except of execute turns into a failed
\* result.
HandlerDownload ==
    /\ ih_pc = "execute"
    /\ IF NotContent(ih_blob)
       THEN /\ ih_result' = HandlerFailed("Failed to download file")
            /\ ih_pc' = "returned"
       ELSE /\ ih_pc' = "process_file"
            /\ UNCHANGED ih_result
    /\ UNCHANGED <<ih_payload, ih_webhook_url, ih_blob, ih_pipeline, ih_posted, ih_exit>>
    /\ UNCHANGED rest_handler

\* execute, lines 61-67: process_file is awaited; whatever string it
\* returns becomes the result of a completed task.
HandlerProcess ==
    /\ ih_pc = "process_file"
    /\ \E run \in PipelineRuns :
         /\ ih_pipeline' = run
         /\ ih_result' = HandlerCompleted(run.outcome)
    /\ ih_pc' = "returned"
    /\ UNCHANGED <<ih_payload, ih_webhook_url, ih_blob, ih_posted, ih_exit>>
    /\ UNCHANGED rest_handler

\* run, lines 213-235: the webhook carries the status of the result when a
\* URL was given, and the exit code is 0 for completed, 1 otherwise.
HandlerNotifyExit ==
    /\ ih_pc = "returned"
    /\ \E outcome \in PostOutcomes :
         ih_posted' = IF Truthy(ih_webhook_url)
                      THEN [status |-> ih_result.status,
                            sent |-> send_webhook(ih_webhook_url, outcome)]
                      ELSE NoHandlerPost
    /\ ih_exit' = <<ExitCode(ih_result)>>
    /\ ih_pc' = "exited"
    /\ UNCHANGED <<ih_payload, ih_webhook_url, ih_blob, ih_pipeline, ih_result>>
    /\ UNCHANGED rest_handler

NextHandler ==
    \/ HandlerDownload
    \/ HandlerProcess
    \/ HandlerNotifyExit

\* No ingest task in a handler.
IdleHandler ==
    /\ ih_pc = "idle"
    /\ ih_payload = [filename |-> "a.txt", document_set |-> "demo"]
    /\ ih_webhook_url = ""
    /\ ih_blob = None
    /\ ih_pipeline = NoPipeline
    /\ ih_result = NoHandlerResult
    /\ ih_posted = NoHandlerPost
    /\ ih_exit = <<>>

\* The single-shot runner at rest.
IdleSingle ==
    /\ st_pc = "idle"
    /\ task_data_raw = <<>>
    /\ st_task = NoTask
    /\ st_fate = None
    /\ st_result = NoResult
    /\ exit_code = <<>>
    /\ st_raised = None
    /\ st_executed = <<>>
    /\ st_webhooks = <<>>

\* The polling worker at rest, its queue empty.
IdlePoll ==
    /\ queue = [m \in Msgs |-> "deleted"]
    /\ msg_content = [m \in Msgs |-> <<>>]
    /\ w_pc = "stopped"
    /\ running = FALSE
    /\ w_messages = <<>>
    /\ w_i = 0
    /\ w_fate = None
    /\ w_returned = {}
    /\ w_killed_in = 0
    /\ w_shutdown_in = 0
    /\ w_webhooks = NoPost
    /\ w_log = NoLog

(***************************************************************************)
(* Specifications: one per component, the others at rest.                  *)
(***************************************************************************)

InitSpecSingle ==
    InitSingle /\ IdlePoll /\ IdleQueue /\ IdleIngest /\ IdleSearch /\ IdleStore /\ IdleWatch /\ IdleXls /\ IdleHandler

InitSpecPoll ==
    InitPoll /\ IdleSingle /\ IdleQueue /\ IdleIngest /\ IdleSearch /\ IdleStore /\ IdleWatch /\ IdleXls /\ IdleHandler

InitSpecQueue ==
    InitQueue /\ IdleSingle /\ IdlePoll /\ IdleIngest /\ IdleSearch /\ IdleStore /\ IdleWatch /\ IdleXls /\ IdleHandler

InitSpecIngest ==
    InitIngest /\ IdleSingle /\ IdlePoll /\ IdleQueue /\ IdleSearch /\ IdleStore /\ IdleWatch /\ IdleXls /\ IdleHandler

InitSpecSearch ==
    InitSearch /\ IdleSingle /\ IdlePoll /\ IdleQueue /\ IdleIngest /\ IdleStore /\ IdleWatch /\ IdleXls /\ IdleHandler

InitSpecStore ==
    InitStore /\ IdleSingle /\ IdlePoll /\ IdleQueue /\ IdleIngest /\ IdleSearch /\ IdleWatch /\ IdleXls /\ IdleHandler

InitSpecWatch ==
    InitWatch /\ IdleSingle /\ IdlePoll /\ IdleQueue /\ IdleIngest /\ IdleSearch /\ IdleStore /\ IdleXls /\ IdleHandler

InitSpecXls ==
    InitXls /\ IdleSingle /\ IdlePoll /\ IdleQueue /\ IdleIngest /\ IdleSearch /\ IdleStore /\ IdleWatch /\ IdleHandler

InitSpecHandler ==
    InitHandler /\ IdleSingle /\ IdlePoll /\ IdleQueue /\ IdleIngest /\ IdleSearch /\ IdleStore /\ IdleWatch /\ IdleXls

SpecSingle == InitSpecSingle /\ [][NextSingle]_vars

SpecPoll == InitSpecPoll /\ [][NextPoll]_vars

SpecQueue == InitSpecQueue /\ [][NextQueue]_vars

SpecIngest == InitSpecIngest /\ [][NextIngest]_vars

SpecSearch == InitSpecSearch /\ [][NextSearch]_vars

SpecStore == InitSpecStore /\ [][NextStore]_vars

SpecWatch == InitSpecWatch /\ [][NextWatch]_vars

SpecXls == InitSpecXls /\ [][NextXls]_vars

SpecHandler == InitSpecHandler /\ [][NextHandler]_vars

(***************************************************************************)
(* Properties.                                                             *)
(***************************************************************************)

\* C1: in polling mode a message is deleted only by a step taken after
\* process_message returned for it, and whenever the worker was killed while
\* the handler of a message was running, that message is not deleted: it is
\* still in the queue, hidden or visible again.
C1_DeleteOnlyAfterProcess ==
    /\ [][\A m \in Msgs :
            (queue[m] # "deleted" /\ queue'[m] = "deleted") => m \in w_returned]_vars
    /\ [](w_pc = "killed" /\ w_killed_in # 0
            => queue[w_killed_in] \in {"invisible", "visible"})

\* C1 witness: the worker was killed in the handler of a message that the
\* queue shows again, after it had processed and deleted another message.
C1_Witness ==
    /\ w_pc = "killed"
    /\ w_killed_in # 0
    /\ queue[w_killed_in] = "visible"
    /\ \E m \in Msgs : queue[m] = "deleted" /\ m \in w_returned

RunEnded == st_pc \in {"returned", "raised"}

\* C2: when run has ended, it returned 0 if the handler's result is
\* completed, and in every other case it returned 1.
C2_ExitCodeIffCompleted ==
    RunEnded =>
        /\ st_result.status = "completed" => exit_code = <<0>>
        /\ st_result.status # "completed" => exit_code = <<1>>

\* C3: an ingest of a pair (filename, document_set) that begins after an
\* earlier ingest of the same pair returned "Indexed", and whose count query
\* (if it makes one) was answered, returns Skipped (already indexed) and does
\* no conversion, no embedding and no upsert.
C3_SecondIngestSkipped ==
    \A t \in Tasks : \A i \in 1..Len(ing_results[t]) :
        LET r == ing_results[t][i] IN
        (r.prior /\ ~r.count_failed) =>
            /\ r.outcome = "Skipped: Already indexed"
            /\ ~r.converted
            /\ ~r.embedded
            /\ r.attempted = {}

\* C4: a task whose serialized message is over 64 KiB is never handed to
\* send_message and submit_task does not return a task id for it: once the
\* call has ended it has raised the size error (or the configuration error).
C4_OversizedNeverSent ==
    DumpsSize(q_task.task_type, q_task.payload_size) > MAX_MESSAGE_SIZE =>
        /\ q_sent = <<>>
        /\ q_pc # "returned"
        /\ q_pc = "raised" =>
             q_error = IF q_task.configured THEN "ValueError" ELSE "RuntimeError"

\* C4 witness: submit_task of an oversized payload on a configured queue has
\* raised after its last attempt, and nothing was sent.
C4_Witness ==
    /\ q_pc = "raised"
    /\ q_task.configured
    /\ q_task.payload_size > MAX_MESSAGE_SIZE
    /\ q_error = "ValueError"
    /\ q_sent = <<>>

\* C5: whatever the handler does, run is never stuck (while it has not
\* ended, a step of it can be taken, so the timeout can always abandon the
\* handler), and a run whose handler timed out ends with exit code 1 and,
\* when a webhook URL was given, with one POST that carries the failed
\* result.
C5_TimeoutEndsRun ==
    /\ ~RunEnded => ENABLED NextSingle
    /\ (RunEnded /\ st_result = Failed(TimeoutMsg)) =>
          /\ exit_code = <<1>>
          /\ Truthy(st_task.webhook_url) =>
                /\ Len(st_webhooks) = 1
                /\ st_webhooks[1].data.status = "failed"
                /\ st_webhooks[1].data.error = TimeoutMsg

IsUpsertFailure(outcome) == outcome \in {"Failed", "Upsert failed for batch"}

C7_UpsertFailureReported ==
    \A t \in Tasks : \A i \in 1..Len(ing_results[t]) :
        LET r == ing_results[t][i] IN
        r.failed # {} => r.outcome # "Indexed"

FilenamesOf(results) == {results[i].filename : i \in 1..Len(results)}

\* C8: the results of a search with limit n carry at most n distinct
\* filenames.
C8_AtMostLimitFilenames ==
    sr_pc = "returned" => Cardinality(FilenamesOf(sr_results)) <= sr_limit

\* C8 witness: the index holds chunks of more files than the limit, and the
\* search returned more chunks than the limit, of exactly `limit` files.
C8_Witness ==
    /\ sr_pc = "returned"
    /\ sr_limit >= 1
    /\ Cardinality(FilenamesOf(sr_rows)) > sr_limit
    /\ Len(sr_results) > sr_limit
    /\ Cardinality(FilenamesOf(sr_results)) = sr_limit

\* The JSON part of task data: the text after the first pipe, if any.
JsonPart(raw) == IF HasPipe(raw) THEN SplitPipe(raw)[2] ELSE raw

\* Task data that is not valid JSON, or valid JSON without a task_type.
ParseFailure(raw) ==
    LET doc == Loads(JsonPart(raw)) IN
    IF doc = JSONDecodeError THEN TRUE
    ELSE IF doc.kind # "object" THEN TRUE
    ELSE doc.task_type = None

\* C9: for task data that is not valid JSON or lacks task_type, run has
\* returned 1 after its first step, no handler was executed and no webhook
\* was posted.
C9_ParseFailureReturnsOne ==
    (st_pc \notin {"start", "idle"} /\ ParseFailure(task_data_raw)) =>
        /\ st_pc = "returned"
        /\ exit_code = <<1>>
        /\ st_executed = <<>>
        /\ st_webhooks = <<>>

\* C10: for a parsed task whose task_type X is not in the registry, once
\* dispatch is over no handler was executed, the result is failed with the
\* error "Unknown task type: X", no exception has escaped run, and a run
\* that has returned has returned 1.
C10_UnknownTypeHandled ==
    (st_pc \in {"notify", "returned", "raised"}
        /\ st_task.exc = None /\ st_task.task_type # None
        /\ st_task.task_type \notin Handlers) =>
        /\ st_executed = <<>>
        /\ st_result = Failed(UnknownTaskTypeMsg(st_task.task_type))
        /\ st_pc # "raised"
        /\ st_pc = "returned" => exit_code = <<1>>

\* Dispatch is over: execute_with_timeout has given run a result.
DispatchFinished == st_result # NoResult

\* C11: once dispatch has given a result, however the webhook delivery
\* goes, a run that has ended has returned (no exception escaped it) and
\* its exit code is the one the result alone determines.
C11_WebhookNeverChangesExit ==
    (RunEnded /\ DispatchFinished) =>
        /\ st_pc = "returned"
        /\ exit_code = <<ExitCode(st_result)>>

ParseSucceeded == st_task # NoTask

\* C12: the webhook is posted at most once, only after dispatch has given
\* its result (which the post carries), and a run that has ended has posted
\* it if and only if parsing succeeded and a webhook URL was given.
C12_ParseDispatchNotifyExit ==
    /\ Len(st_webhooks) <= 1
    /\ st_webhooks # <<>> =>
          /\ DispatchFinished
          /\ st_pc = "returned"
          /\ st_webhooks[1].data.status = st_result.status
    /\ RunEnded =>
          (st_webhooks # <<>> <=> (ParseSucceeded /\ Truthy(st_task.webhook_url)))

\* The ingests that have stored chunks for the pair k.
StoredBy(k) ==
    {ti \in Tasks \X (1..MaxFiles) :
        /\ ti[2] <= Len(ing_results[ti[1]])
        /\ LET r == ing_results[ti[1]][ti[2]] IN
             /\ <<r.filename, r.document_set>> = k
             /\ ing_call_runs
             /\ r.attempted \ r.failed # {}}

AllCountsAnswered ==
    \A t \in Tasks :
        /\ ~ing_count_failed[t]
        /\ \A i \in 1..Len(ing_results[t]) : ~ing_results[t][i].count_failed

\* C13: under every interleaving of the ingest_docs_task runs (all of whose
\* count queries were answered), at most one of them has stored chunks for
\* any pair (filename, document_set): the index never holds two sets of
\* chunks of one pair.
C13_OneSetUnderInterleaving ==
    (ing_impl = "ingest_docs_task" /\ AllCountsAnswered) =>
        \A k \in Keys : Cardinality(StoredBy(k)) <= 1

\* C14: an ingest is skipped as already indexed only when the index held
\* chunks of its own pair (filename, document_set) when it was checked.
C14_CheckKeyedByPair ==
    \A t \in Tasks : \A i \in 1..Len(ing_results[t]) :
        LET r == ing_results[t][i] IN
        r.outcome = "Skipped: Already indexed" => r.had > 0

\* C15: a call made while the backend is unavailable (no pool, or a failing
\* query) raises when it is upsert_vectors (of at least one point) or
\* delete_document, and returns an empty list when it is search or
\* list_documents.
C15_UnavailableStore ==
    (db_call.op # None /\ db_backend # "ok") =>
        /\ (db_call.op = "upsert_vectors" /\ db_call.n > 0) => db_ret = "raised"
        /\ db_call.op = "delete_document" => db_ret = "raised"
        /\ db_call.op \in {"search", "list_documents"} =>
              (db_ret = "returned" /\ db_result = 0)

\* C16: after delete_document(filename, document_set) has returned, no row
\* of that filename is left in that document set (in any set, when
\* document_set is empty or "all"), and every other pair has the rows it
\* had before the call.
C16_DeleteFrame ==
    (db_call.op = "delete_document" /\ db_ret = "returned") =>
        \A k \in Keys :
            IF /\ k[1] = db_call.filename
               /\ (db_call.document_set \in {None, "", "all"}
                     \/ k[2] = db_call.document_set)
            THEN db_table[k] = 0
            ELSE db_table[k] = db_before[k]

\* The waits after the first k failed attempts: 1s, 2s, ...
RECURSIVE Backoffs(_)
Backoffs(k) ==
    IF k = 0 THEN <<>> ELSE Append(Backoffs(k - 1), Min(base_delay * Pow2(k - 1), max_delay))

\* The attempts of the wrapped operation made so far.
Attempts == IF q_pc = "call" THEN q_attempt ELSE q_attempt + 1

\* C17: an operation under retry_with_backoff(3, 1.0, 10.0) is attempted at
\* most 3 times; the waits so far are 1s and then 2s, one after each failed
\* attempt but the last allowed one; it has returned only right after an
\* attempt that succeeded, the only one that did; and it has raised only
\* after 3 failed attempts and 2 waits, with the error of the last attempt.
C17_RetryWithBackoff ==
    /\ Attempts <= 3
    /\ q_slept = Backoffs(Len(q_slept))
    /\ q_pc = "sleep" => Len(q_slept) = Attempts
    /\ q_pc = "call" => Len(q_slept) = Attempts
    /\ q_pc = "returned" =>
          /\ Len(q_slept) = Attempts - 1
          /\ q_sent # <<>>
          /\ \A i \in 1..Len(q_sent) : q_sent[i].delivered <=> i = Len(q_sent)
          /\ q_error = None
    /\ q_pc = "raised" =>
          /\ Attempts = 3
          /\ q_slept = <<1, 2>>
          /\ q_error # None
          /\ \A i \in 1..Len(q_sent) : ~q_sent[i].delivered

\* C17 witness: delete_message has raised the error of the queue client
\* after three calls of it that failed and waits of 1s and 2s.
C17_Witness ==
    /\ q_pc = "raised"
    /\ q_task.op = "delete_message"
    /\ q_error = "HttpResponseError"
    /\ Len(q_sent) = 3
    /\ q_slept = <<1, 2>>

\* C18: an ingestion task given N files never ends with an exception, its
\* outcomes so far are those of the first files of its list, in the order
\* of the list, and when it has returned there are exactly N of them.
C18_NOutcomesInOrder ==
    \A t \in Tasks :
        /\ ing_pc[t] # "raised"
        /\ Len(ing_results[t]) <= Len(ing_files[t])
        /\ \A i \in 1..Len(ing_results[t]) :
              /\ ing_results[t][i].filename = ing_files[t][i].filename
              /\ ing_results[t][i].document_set = ing_files[t][i].document_set
        /\ ing_pc[t] = "done" => Len(ing_results[t]) = Len(ing_files[t])

\* The errors process_message logs for an exception raised inside it.
ProcessingErrors == {"Invalid JSON in message", "Error processing message"}

\* process_message ends in this step: run leaves the call without the
\* worker being killed.
ProcessMessageEnding ==
    /\ w_pc \in {"process", "executing"}
    /\ w_pc' \notin {"process", "executing", "killed"}

\* C19: in polling mode an exception raised while a message is processed,
\* by decoding, by the handler or by the delivery of the webhook, is logged
\* for that message and process_message returns: run goes on to delete the
\* same message and, once it is deleted, to process the next message of the
\* batch; and run ends only after self.running was cleared.
C19_ProcessingErrorsCaught ==
    /\ [][ProcessMessageEnding =>
            /\ w_pc' = "delete"
            /\ w_i' = w_i /\ w_messages' = w_messages
            /\ (\/ w_pc = "process" /\ decode_message(msg_content[CurrentMessage]).how \in ProcessingErrors
                \/ w_pc = "executing" /\ w_fate = "raises")
                  => w_log'.message = CurrentMessage /\ w_log'.error \in ProcessingErrors]_vars
    /\ [][(w_pc = "delete" /\ queue'[CurrentMessage] = "deleted" /\ w_i < Len(w_messages))
            => w_pc' = "process" /\ w_i' = w_i + 1]_vars
    /\ [](w_pc = "stopped" => ~running)

\* C19 witness: the delivery of the webhook of the first message of a batch
\* raised (a URL httpx rejects) and was logged, the message was deleted, and
\* run is about to process the second message of the batch.
C19_Witness ==
    /\ w_pc = "process"
    /\ w_i = 2
    /\ w_log = [message |-> w_messages[1], error |-> "Error processing message"]
    /\ decode_message(msg_content[w_messages[1]]).how = "unknown"
    /\ queue[w_messages[1]] = "deleted"
    /\ running

Unindexed(filepath) ==
    /\ fw_fs[filepath] = "data"
    /\ ~StartsWithDot(Basename(filepath))
    /\ filepath \notin fw_registry

\* C21: the registry of a reconciliation pass holds only paths that were in
\* the vector store when the pass fetched it; no path of the registry is
\* submitted by the pass; and when the pass ends, every file with content
\* and a name that is not hidden whose path is not in the registry has been
\* submitted by it.
C21_ReconciliationPass ==
    /\ [](fw_pc \in {"walk", "queue"} => fw_registry \subseteq fw_index_at)
    /\ [](fw_submitted \cap fw_registry = {})
    /\ [][(fw_pc \in {"walk", "queue"} /\ fw_pc' = "sleep")
            => \A filepath \in WatchedPaths :
                 Unindexed(filepath) => filepath \in fw_submitted']_vars

\* C22: submit_task of a message over the 64 KiB ceiling on a configured
\* queue is not retried: it has no attempt after the first and sleeps no
\* backoff delay.
C22_OversizedNotRetried ==
    (/\ q_task.op = "submit_task"
     /\ q_task.configured
     /\ MessageTooLarge(DumpsSize(q_task.task_type, q_task.payload_size)))
        => (q_attempt = 0 /\ q_slept = <<>>)

\* C23: every text submit_task hands to send_message, the task id and "|"
\* included, is at most 65536 bytes.
C23_EnvelopeWithinLimit ==
    q_task.op = "submit_task" =>
        \A i \in 1..Len(q_sent) : q_sent[i].size <= MAX_MESSAGE_SIZE

\* The outcomes that report a failure of the embedding.
EmbeddingFailures == {EmbeddingFailure("ingest_docs_task"), EmbeddingFailure("process_file")}

\* C24: the embedding of a file is called at most 3 times; a call that
\* fails is followed by another until one succeeds or 3 have failed, with
\* delays of 2s and then 4s between the calls; and when 3 calls failed the
\* file's outcome is a failure and no batch of it was upserted.
C24_EmbeddingRetried ==
    \A t \in Tasks :
        LET e == ing_embed[t] IN
        e.attempts > 0 =>
            /\ e.attempts <= 3
            /\ e.attempts = Min(e.failures + 1, 3)
            /\ e.slept = [k \in 1..(e.attempts - 1) |-> 2 * Pow2(k - 1)]
            /\ e.failures >= 3 =>
                 /\ ing_pc[t] # "upsert"
                 /\ ing_results[t] # <<>>
                 /\ LET r == ing_results[t][Len(ing_results[t])] IN
                      r.outcome \in EmbeddingFailures /\ r.attempted = {}

\* C25: when an ingest or a summarization of a .xls input has returned, by
\* whichever exit, the temporary .xlsx file it created is no longer on disk
\* (os.remove being able to remove it).
C25_TempFileRemoved ==
    (xl_pc = "returned" /\ xl_removable) => ~xl_temp

\* C26: a source of 0 bytes is skipped, never failed: the ingest handler
\* given an empty downloaded blob does not return {status: failed}, and no
\* conversion, embedding or upsert is attempted for it.
C26_ZeroByteSkipped == (ih_blob = "b''" /\ ih_pc \in {"returned", "exited"}) => (ih_result.status # "failed" /\ ih_pipeline = NoPipeline)

\* The pipeline outcomes that report a document indexed or skipped.
IndexedOrSkipped == {"Indexed", "Skipped: No content extracted"}

\* C30: IngestionHandler.execute returns completed only when the pipeline
\* outcome is Indexed or Skipped; when process_file reports a conversion,
\* embedding or upsert failure the result of the handler is failed, so the
\* exit code is 1 and the webhook, when one is sent, carries status failed.
C30_PipelineFailureIsFailed ==
    /\ ih_result.status = "completed" => ih_pipeline.outcome \in IndexedOrSkipped
    /\ (ih_pc = "exited" /\ ih_pipeline # NoPipeline /\ ih_pipeline.outcome \notin IndexedOrSkipped) =>
          /\ ih_exit = <<1>>
          /\ Truthy(ih_webhook_url) => ih_posted.status = "failed"

\* A file a periodic pass owes a submission: not hidden, not empty, and
\* without points in the store when the pass fetched its registry.
Owed(filepath) == fw_fs[filepath] = "data" /\ ~StartsWithDot(Basename(filepath)) /\ filepath \notin fw_index_at

\* The step that ends a pass with a submission lost: a callback raised.
SubmissionLost == fw_pc = "queue" /\ fw_files_to_index # <<>> /\ fw_pc' = "sleep"

\* C27: a file that is not hidden, not empty, stays under the root and is
\* not indexed is submitted by a periodic pass, whether or not its creation
\* was observed, whether or not it was empty when created and whether or
\* not an earlier submission was lost: once a scheduled pass has ended
\* without losing a submission, every such file has been submitted by it or
\* by an earlier pass.
C27_EventuallySubmitted == [][(fw_pc \in {"walk", "queue"} /\ fw_pc' = "sleep" /\ ~SubmissionLost) => \A filepath \in WatchedPaths : Owed(filepath) => filepath \in fw_by_pass']_vars

\* The documents submit_task encodes: json({task_type, payload}) with a
\* task_type that is not empty.
WireDocuments == {v \in JsonObjects : v.task_type \in {"ingest", "summarize", "bogus"} /\ v.payload # <<None>> /\ v.webhook_url = None /\ v.task_id = None}

\* C28: parse_task_data inverts the wire encoding: once "<task_id>|" +
\* json({task_type, payload}) has been parsed, the task is that task_id,
\* task_type and payload, also for a payload whose text holds a pipe; once
\* the bare JSON has been parsed, the task is the same task_type and
\* payload with the task_id "unknown".
C28_ParseInvertsEncoding ==
    st_pc # "start" =>
      \A v \in WireDocuments :
        /\ task_data_raw = <<"abc123", "|">> \o Dumps(v) => st_task = Parsed(<<"abc123">>, v.task_type, v.payload, None)
        /\ task_data_raw = Dumps(v) => st_task = Parsed(<<"unknown">>, v.task_type, v.payload, None)

\* C29: in polling mode every received message is deleted once
\* process_message returns, whatever the outcome (text that is no JSON, an
\* unknown task type, a handler that failed or raised, a webhook that
\* failed): when process_message ends, run is at delete_message for the
\* same message; run leaves delete_message with the message deleted, unless
\* the worker is killed or the queue call itself raised; and a deleted
\* message stays deleted, so it is never delivered or processed again.
C29_DeletedWhateverOutcome ==
    /\ [][ProcessMessageEnding => (w_pc' = "delete" /\ w_messages'[w_i'] = CurrentMessage)]_vars
    /\ [](w_pc = "delete" => CurrentMessage \in w_returned)
    /\ [][(w_pc = "delete" /\ w_pc' \notin {"delete", "killed"})
            => \/ queue'[CurrentMessage] = "deleted"
               \/ w_pc' = "sleep" /\ w_log' = [message |-> CurrentMessage, error |-> "Error in worker loop"]]_vars
    /\ [][\A m \in Msgs : queue[m] = "deleted" => queue'[m] = "deleted"]_vars
    /\ [](w_pc \in {"process", "executing"} => queue[CurrentMessage] # "deleted")

\* C29 witness: a message whose text is no JSON was logged and deleted, and
\* so was a message whose handler failed and whose webhook was not
\* delivered; the loop is back at its while test.
C29_Witness ==
    /\ w_pc = "loop"
    /\ \E m1, m2 \in Msgs :
         /\ m1 # m2
         /\ decode_message(msg_content[m1]).how = "Invalid JSON in message"
         /\ queue[m1] = "deleted"
         /\ queue[m2] = "deleted"
         /\ w_webhooks.message = m2 /\ w_webhooks.status = "failed" /\ w_webhooks.sent = "False"
         /\ decode_message(msg_content[m2]).how = "execute"

====
